---- MODULE Spec2Model ----
(***************************************************************************)
(* A model of the retrieval pipeline of the code documentation assistant:  *)
(*   - the vector index   (code_assistant/embeddings/vector_store.py)      *)
(*   - the embedder       (code_assistant/embeddings/embedder.py)          *)
(*   - the chunker        (code_assistant/embeddings/chunker.py)           *)
(*   - the analysis API   (code_assistant/api/routers/analysis.py and      *)
(*                         code_assistant/api/tasks.py)                    *)
(* Each component has its own specification over the shared variables:     *)
(* Spec, SpecMetadata and SpecModels (the index), SpecAsync and            *)
(* FairSpecAsync (embed_chunks_async), SpecEmbed (embed_chunk and          *)
(* embed_chunks_batch), SpecChunk (chunk_repository and chunk_file), and   *)
(* SpecTasks and FairSpecTasks (the analysis API).                         *)
(***************************************************************************)
EXTENDS Integers, Sequences, FiniteSets, TLC

VARIABLES
    \* ---- vector index (ChromaVectorStore) ----
    collection,   \* the rows of the ChromaDB collection
    op,           \* the index operation called last
    ret,          \* what it returned: "True", "False", "results", "raised"
    existed,      \* ids of the argument that were stored before the call
    known,        \* add: every chunk of a non-empty argument had its identity
                  \* fields stored before the call
    asked,        \* the query of the last search
    sent,         \* the where clause of the last backend query
    answer,       \* the rows the backend returned for it
    hits,         \* the SearchResults the last search returned
    \* ---- embed_chunks_async (CodeEmbedder) ----
    submitted,    \* the chunks handed to embed_chunks_async
    task,         \* per chunk index: position of its embed_single_chunk task
    outcome,      \* per chunk index: the value its task returned
    cache,        \* CodeEmbedder._cache : cache key -> EmbeddingResult
    model_calls,  \* per chunk index: number of model calls made for it
    returned,     \* what embed_chunks_async returned (valid_results)
    \* ---- embed_chunk and embed_chunks_batch (CodeEmbedder) ----
    embedder,     \* config.model, model, model_name, embedding_dimension
    self_cache,   \* CodeEmbedder._cache : cache key -> EmbeddingResult
    embed_calls,  \* per cache key: model calls of embed_chunk, and those
                  \* that raised
    frame,        \* the embed_chunks_batch call that runs: its position,
                  \* its locals and what it did to each chunk
    value,        \* what the last call returned
    \* ---- chunk_file (CodeChunker) ----
    todo,         \* chunk_repository: the supported files not chunked yet
    all_chunks,   \* chunk_repository: the files whose chunks were collected
    file,         \* the file chunk_file works on, and what the parser
                  \* yields for it
    strategy,     \* config.strategy
    pc,           \* position in chunk_file
    fault,        \* why chunk_file went to the fallback, "none" if it did not
    opened,       \* whether the fallback could read the file
    chunks,       \* the strategy's chunks, before post-processing
    result,       \* what chunk_file returned
    \* ---- the analysis API (api/routers/analysis.py, api/tasks.py) ----
    tasks,        \* the task table: task id -> status, progress, result, error
    running,      \* per task id: where the analysis of the request is
    response      \* what the last request was answered with

ixVars == <<collection, op, ret, existed, known, asked, sent, answer, hits>>
asVars == <<submitted, task, outcome, cache, model_calls, returned>>
ckVars == <<todo, all_chunks, file, strategy, pc, fault, opened, chunks, result>>
emVars == <<embedder, self_cache, embed_calls, frame, value>>
tkVars == <<tasks, running, response>>
vars == <<ixVars, asVars, ckVars, emVars, tkVars>>

\* Python's None, for the optional string fields.
NoneV == "<None>"

\* ---- helpers on sequences ----
Range(s) == {s[i] : i \in 1..Len(s)}

RECURSIVE SeqsUpTo(_, _)
SeqsUpTo(S, n) ==
    IF n = 0 THEN {<<>>}
    ELSE LET shorter == SeqsUpTo(S, n - 1)
         IN shorter \cup {Append(s, x) : s \in {t \in shorter : Len(t) = n - 1}, x \in S}

Min2(a, b) == IF a <= b THEN a ELSE b
Max2(a, b) == IF a >= b THEN a ELSE b

(***************************************************************************)
(*                          THE VECTOR INDEX                               *)
(***************************************************************************)

\* Bound of the index model: results in one add_embeddings or
\* update_embeddings call.
MaxBatch == 2

\* VectorStoreConfig.max_results
ConfigMaxResults == 50
\* chunk.content[:1000]
DocumentBudget == 1000

\* core/types.py: the values of LanguageType and CodeElementType.
LanguageTypes == {"python", "javascript", "typescript", "java", "go", "rust",
                  "cpp", "c", "csharp", "php"}
CodeElementTypes == {"function", "class", "method", "variable", "constant",
                     "import", "module", "interface", "enum", "struct",
                     "namespace", "decorator", "comment", "docstring"}
ChunkTypes == {"code", "comment", "docstring", "documentation"}

\* The text of a chunk is a name with a length; "long" is longer than the
\* document budget.
ContentLen(c) == IF c = "long" THEN 1500 ELSE 40

\* The chunks and embedding results the index is fed with: the function
\* chunk (with two texts) and the class chunk of a parsed python file, a
\* function chunk of a second one, and the sliding-window chunk of a file
\* with no parser (no language, no element kind).  The vector is the
\* model's image of the text.
IndexChunks ==
    {[file_path |-> "a.py", start_line |-> 1, end_line |-> 3, element_name |-> "f",
      element_type |-> "function", chunk_type |-> "code", language |-> "python",
      content |-> c] : c \in {"c1", "long"}}
    \cup
    {[file_path |-> "a.py", start_line |-> 1, end_line |-> 3, element_name |-> "f",
      element_type |-> "class", chunk_type |-> "code", language |-> "python",
      content |-> "c1"],
     [file_path |-> "b.py", start_line |-> 1, end_line |-> 3, element_name |-> "f",
      element_type |-> "function", chunk_type |-> "code", language |-> "python",
      content |-> "long"],
     [file_path |-> "c.txt", start_line |-> 1, end_line |-> 3,
      element_name |-> "chunk_1_3", element_type |-> NoneV, chunk_type |-> "code",
      language |-> NoneV, content |-> "c1"]}

EmbeddingOf(c) == IF c = "long" THEN <<2>> ELSE <<1>>

IndexResults ==
    {[chunk |-> ch, embedding |-> EmbeddingOf(ch.content), model_name |-> "m",
      embedding_dimension |-> 1] : ch \in IndexChunks}

\* _get_language_value
GetLanguageValue(language) == IF language = NoneV THEN "unknown" ELSE language

\* The `x or default` of an optional string.
OrElse(x, default) == IF x = NoneV \/ x = "" THEN default ELSE x

\* A faulty variant of _generate_chunk_id: the id is taken from the text of
\* the chunk instead of its element kind.
GenerateChunkIdOfContent(chunk) ==
    <<chunk.file_path, ToString(chunk.start_line), ToString(chunk.end_line),
      OrElse(chunk.element_name, "unnamed"), chunk.content>>
\* _generate_chunk_id: uuid5 of the five parts joined by "|".  uuid5 is a
\* function of the joined string, modelled by the tuple of the parts.
GenerateChunkId(chunk) ==
    <<chunk.file_path, ToString(chunk.start_line), ToString(chunk.end_line),
      OrElse(chunk.element_name, "unnamed"), OrElse(chunk.element_type, "unknown")>>

\* The metadata add_embeddings and _prepare_metadata build (the nine fields
\* every row has).
BaseMetadata(r) ==
    [file_path |-> r.chunk.file_path,
     start_line |-> r.chunk.start_line,
     end_line |-> r.chunk.end_line,
     element_name |-> OrElse(r.chunk.element_name, ""),
     element_type |-> OrElse(r.chunk.element_type, ""),
     chunk_type |-> OrElse(r.chunk.chunk_type, "code"),
     language |-> GetLanguageValue(r.chunk.language),
     model_name |-> r.model_name,
     embedding_dimension |-> r.embedding_dimension]

\* chunk.content[:1000]: the stored document is the text and how much of it
\* is kept.
DocumentOf(content) ==
    [text |-> content, kept |-> Min2(ContentLen(content), DocumentBudget)]

\* The row add_embeddings hands to the backend for one result.
RowOf(r) ==
    [id |-> GenerateChunkId(r.chunk),
     embedding |-> r.embedding,
     metadata |-> BaseMetadata(r),
     document |-> DocumentOf(r.chunk.content)]

Ids(coll) == {row.id : row \in coll}
RowsOf(rs) == [i \in 1..Len(rs) |-> RowOf(rs[i])]
HasDuplicateIds(rows) ==
    \E i, j \in 1..Len(rows) : i < j /\ rows[i].id = rows[j].id

\* collection.add(...), lines 190-195.  chromadb's Collection.add (the
\* library generation that has PersistentClient) refuses ids repeated inside
\* one call (HasDuplicateIds) and skips a row whose id is already in the
\* collection: the stored row stays as it is.
BackendAdd(coll, rows) ==
    coll \cup {row \in Range(rows) : row.id \notin Ids(coll)}

\* chromadb keeps vectors of one length in a collection: add and update
\* raise when a vector is not as long as the ones stored (or as the others
\* of the call).
SameDimension(coll, rows) ==
    \A r, o \in coll \cup Range(rows) : Len(r.embedding) = Len(o.embedding)

\* chromadb Collection.update: the row stored under the id is replaced.
BackendUpdate(coll, row) ==
    {old \in coll : old.id # row.id} \cup {row}

\* A faulty variant of the rows of a file: every row.
RowsOfAnyFile(coll, path) == coll
\* chromadb Collection.get / delete by where {"file_path": path}.
RowsOfFile(coll, path) == {row \in coll : row.metadata.file_path = path}

NoWhere == [key |-> NoneV, value |-> NoneV]

\* search, lines 214-221: the one where clause sent to the backend.
WhereClause(query) ==
    IF Len(query.element_types) = 1
    THEN [key |-> "element_type", value |-> query.element_types[1]]
    ELSE IF query.language # NoneV
         THEN [key |-> "language", value |-> GetLanguageValue(query.language)]
         ELSE NoWhere

Matches(row, where) ==
    CASE where.key = "element_type" -> row.metadata.element_type = where.value
      [] where.key = "language" -> row.metadata.language = where.value
      [] OTHER -> TRUE

\* The backend's distance between the query and a stored vector, in tenths:
\* the squared distance of two points on a line, four tenths a unit (the
\* vectors that are searched have one coordinate).
Distance(q, v) == 4 * (q - v[1]) * (q - v[1])

\* The orders in which the backend may return the rows S: nearest first,
\* rows at the same distance in any order.
RECURSIVE NearestFirst(_, _)
NearestFirst(S, q) ==
    IF S = {} THEN {<<>>}
    ELSE UNION {{<<row>> \o rest : rest \in NearestFirst(S \ {row}, q)} :
                row \in {r \in S : \A o \in S :
                            Distance(q, r.embedding) <= Distance(q, o.embedding)}}

\* chromadb Collection.query: the n_results nearest rows that satisfy the
\* where clause, nearest first.
BackendQuery(coll, q, n, where) ==
    LET matching == {row \in coll : Matches(row, where)}
        k == Min2(n, Cardinality(matching))
    IN {SubSeq(order, 1, k) : order \in NearestFirst(matching, q)}

\* A faulty variant of the similarity score: the distance itself.
SimilarityScoreOfDistance(distance) == distance
\* search, line 258: 1 - distance, in tenths.
SimilarityScore(distance) == IF distance # 0 THEN 10 - distance ELSE 10

\* The validation of DocumentChunk (core/types.py) on the fields search
\* rebuilds from the stored metadata.
ValidChunkFields(metadata) ==
    /\ metadata.chunk_type \in ChunkTypes
    /\ metadata.language \in LanguageTypes
    /\ metadata.element_type \in CodeElementTypes

\* search, lines 249-280: the SearchResults of the backend's rows.
SearchResults(rows, q) ==
    [i \in 1..Len(rows) |->
        [id |-> rows[i].id,
         chunk |-> [content |-> rows[i].document,
                    chunk_type |-> rows[i].metadata.chunk_type,
                    language |-> rows[i].metadata.language,
                    file_path |-> rows[i].metadata.file_path,
                    start_line |-> rows[i].metadata.start_line,
                    end_line |-> rows[i].metadata.end_line,
                    element_name |-> rows[i].metadata.element_name,
                    element_type |-> rows[i].metadata.element_type],
         distance |-> Distance(q, rows[i].embedding),
         similarity_score |-> SimilarityScore(Distance(q, rows[i].embedding)),
         rank |-> i]]

\* search, line 283: the results at or above the threshold, in order.
RECURSIVE FilterByThreshold(_, _)
FilterByThreshold(rs, threshold) ==
    IF rs = <<>> THEN <<>>
    ELSE IF Head(rs).similarity_score >= threshold
         THEN <<Head(rs)>> \o FilterByThreshold(Tail(rs), threshold)
         ELSE FilterByThreshold(Tail(rs), threshold)

\* The queries: element kinds, language, result cap, threshold (in tenths)
\* and the point the query text is embedded to.
Queries ==
    [element_types : {<<>>, <<"function">>, <<"function", "class">>},
     language : {NoneV, "python"},
     max_results : {1, 10},
     similarity_threshold : {0 - 10, 7},
     point : {1, 3}]

Batches == SeqsUpTo(IndexResults, MaxBatch)

NoQuery == [element_types |-> <<>>, language |-> NoneV, max_results |-> 0,
            similarity_threshold |-> 0, point |-> 0]
NoSearch == asked = NoQuery /\ sent = NoWhere /\ answer = <<>> /\ hits = <<>>
ClearSearch == asked' = NoQuery /\ sent' = NoWhere /\ answer' = <<>> /\ hits' = <<>>

\* The index operations leave the other components alone.
IndexOnly == UNCHANGED <<asVars, ckVars, emVars, tkVars>>

InitIndex ==
    /\ collection = {}
    /\ op = "init"
    /\ ret = "True"
    /\ existed = {}
    /\ known = FALSE
    /\ NoSearch

\* The rows that carry the identity fields (file_path, start_line, end_line,
\* element_name, element_type) of a chunk.
RowsWithIdentityOf(coll, chunk) ==
    {row \in coll :
        /\ row.metadata.file_path = chunk.file_path
        /\ row.metadata.start_line = chunk.start_line
        /\ row.metadata.end_line = chunk.end_line
        /\ row.metadata.element_name = OrElse(chunk.element_name, "")
        /\ row.metadata.element_type = OrElse(chunk.element_type, "")}

IdsOf(rs) == {GenerateChunkId(rs[i].chunk) : i \in 1..Len(rs)}

\* add_embeddings(results); fails: the backend call raises.
AddEmbeddingsOutcome(coll, rs, fails) ==
    IF rs = <<>> THEN [coll |-> coll, ret |-> "True"]
    ELSE IF fails \/ HasDuplicateIds(RowsOf(rs)) \/ ~SameDimension(coll, RowsOf(rs))
         THEN [coll |-> coll, ret |-> "False"]
         ELSE [coll |-> BackendAdd(coll, RowsOf(rs)), ret |-> "True"]

AddEmbeddingsCall(rs, fails) ==
    LET out == AddEmbeddingsOutcome(collection, rs, fails)
    IN /\ collection' = out.coll
       /\ ret' = out.ret
       /\ op' = "add"
       /\ existed' = IdsOf(rs) \cap Ids(collection)
       /\ known' = /\ rs # <<>>
                   /\ \A i \in 1..Len(rs) :
                        RowsWithIdentityOf(collection, rs[i].chunk) # {}
       /\ ClearSearch
       /\ IndexOnly

AddEmbeddings == \E rs \in Batches, fails \in BOOLEAN : AddEmbeddingsCall(rs, fails)

\* update_embeddings(results): the loop over the results.  failAt is the
\* result at which the backend raises, at the collection.get that opens the
\* loop body (0: it never does).
RECURSIVE UpdateLoop(_, _, _, _)
UpdateLoop(coll, rs, i, failAt) ==
    IF i > Len(rs) THEN [coll |-> coll, ret |-> "True"]
    ELSE IF i = failAt THEN [coll |-> coll, ret |-> "False"]
    ELSE IF RowOf(rs[i]).id \in Ids(coll)
         THEN IF ~SameDimension(coll, <<RowOf(rs[i])>>)
              THEN [coll |-> coll, ret |-> "False"]
              ELSE UpdateLoop(BackendUpdate(coll, RowOf(rs[i])), rs, i + 1, failAt)
         ELSE UpdateLoop(AddEmbeddingsOutcome(coll, <<rs[i]>>, FALSE).coll,
                         rs, i + 1, failAt)

UpdateEmbeddingsCall(rs, failAt) ==
    LET out == UpdateLoop(collection, rs, 1, failAt)
    IN /\ failAt <= Len(rs)
       /\ collection' = out.coll
       /\ ret' = out.ret
       /\ op' = "update"
       /\ existed' = IdsOf(rs) \cap Ids(collection)
       /\ known' = FALSE
       /\ ClearSearch
       /\ IndexOnly

UpdateEmbeddings ==
    \E rs \in Batches, failAt \in 0..MaxBatch : UpdateEmbeddingsCall(rs, failAt)

Paths == {"a.py", "b.py", "none.py"}

\* delete_by_file(file_path)
DeleteByFileCall(path, fails) ==
    /\ collection' = IF fails THEN collection
                     ELSE collection \ RowsOfFile(collection, path)
    /\ ret' = IF fails THEN "False" ELSE "True"
    /\ op' = "delete"
    /\ existed' = {row.id : row \in RowsOfFile(collection, path)}
    /\ known' = FALSE
    /\ ClearSearch
    /\ IndexOnly

DeleteByFile == \E path \in Paths, fails \in BOOLEAN : DeleteByFileCall(path, fails)

\* reset_collection()
ResetCollection ==
    \E fails \in BOOLEAN :
        /\ collection' = IF fails THEN collection ELSE {}
        /\ ret' = IF fails THEN "False" ELSE "True"
        /\ op' = "reset"
        /\ existed' = {}
        /\ known' = FALSE
        /\ ClearSearch
        /\ IndexOnly

\* search(query); rows: what the backend returns; fails: its call raises.
SearchCall(query, rows, fails) ==
    LET ok == ~fails /\ \A i \in 1..Len(rows) : ValidChunkFields(rows[i].metadata)
    IN /\ rows \in BackendQuery(collection, query.point,
                                Min2(query.max_results, ConfigMaxResults),
                                WhereClause(query))
       /\ op' = "search"
       /\ asked' = query
       /\ sent' = WhereClause(query)
       /\ answer' = rows
       /\ ret' = IF ok THEN "results" ELSE "raised"
       /\ hits' = IF ok
                  THEN FilterByThreshold(SearchResults(rows, query.point),
                                         query.similarity_threshold)
                  ELSE <<>>
       /\ existed' = {}
       /\ known' = FALSE
       /\ UNCHANGED collection
       /\ IndexOnly

Search ==
    \E query \in Queries, fails \in BOOLEAN :
        \E rows \in BackendQuery(collection, query.point,
                                 Min2(query.max_results, ConfigMaxResults),
                                 WhereClause(query)) :
            SearchCall(query, rows, fails)

\* search_similar_functions, lines 439-462: the SearchResults of the
\* backend's rows, each rebuilt as a function chunk.
SimilarFunctionResults(rows, q) ==
    [i \in 1..Len(rows) |->
        [id |-> rows[i].id,
         chunk |-> [content |-> rows[i].document,
                    chunk_type |-> "code",
                    language |-> NoneV,
                    file_path |-> rows[i].metadata.file_path,
                    start_line |-> rows[i].metadata.start_line,
                    end_line |-> rows[i].metadata.end_line,
                    element_name |-> rows[i].metadata.element_name,
                    element_type |-> "function"],
         distance |-> Distance(q, rows[i].embedding),
         similarity_score |-> 10 - Distance(q, rows[i].embedding),
         rank |-> i]]

FunctionsOnly == [key |-> "element_type", value |-> "function"]

\* search_similar_functions(function_embedding, limit); rows: what the
\* backend returns; fails: its call raises.
SearchSimilarFunctionsCall(point, limit, rows, fails) ==
    /\ rows \in BackendQuery(collection, point, limit, FunctionsOnly)
    /\ op' = "similar"
    /\ asked' = NoQuery
    /\ sent' = FunctionsOnly
    /\ answer' = IF fails THEN <<>> ELSE rows
    /\ ret' = "results"
    /\ hits' = IF fails THEN <<>> ELSE SimilarFunctionResults(rows, point)
    /\ existed' = {}
    /\ known' = FALSE
    /\ UNCHANGED collection
    /\ IndexOnly

SearchSimilarFunctions ==
    \E point \in {1, 3}, limit \in {1, 10}, fails \in BOOLEAN :
        \E rows \in BackendQuery(collection, point, limit, FunctionsOnly) :
            SearchSimilarFunctionsCall(point, limit, rows, fails)

(***************************************************************************)
(*                 THE VECTOR INDEX: chunk metadata                        *)
(***************************************************************************)

\* Bound: the keys of a chunk's metadata mapping.
MaxKeys == 2

\* The values a metadata mapping may hold, each by its Python type and its
\* repr.
PyValue(type, v) == [type |-> type, v |-> v]
PyNone == PyValue("NoneType", "None")
PyValues ==
    {PyNone}
    \cup {PyValue("str", x) : x \in {"", "int", "null"}}
    \cup {PyValue("int", x) : x \in {"0", "5"}}
    \cup {PyValue("bool", x) : x \in {"False", "True"}}
    \cup {PyValue("list", x) : x \in {"[]", "['self']"}}
    \cup {PyValue("dict", x) : x \in {"{}", "{'name': 'self'}"}}

MetadataKeys == {"parameters", "complexity_score", "return_type"}

ChunkMetadatas ==
    UNION {[keys -> PyValues] : keys \in {ks \in SUBSET MetadataKeys :
                                            Cardinality(ks) <= MaxKeys}}

\* The results whose chunk carries a metadata mapping.
ResultsWithMetadata ==
    {[chunk |-> [file_path |-> "a.py", start_line |-> 1, end_line |-> 3,
                 element_name |-> "f", element_type |-> "function",
                 chunk_type |-> "code", language |-> "python", content |-> "c1",
                 metadata |-> m],
      embedding |-> <<1>>, model_name |-> "m", embedding_dimension |-> 1] :
        m \in ChunkMetadatas}

\* str(value) of a list or a mapping: the string that reads as its repr
Str(val) == PyValue("str", val.v)

\* bool(value)
Truthy(val) ==
    CASE val.type = "NoneType" -> FALSE
      [] val.type = "str" -> val.v # ""
      [] val.type = "int" -> val.v # "0"
      [] val.type = "bool" -> val.v = "True"
      [] val.type = "list" -> val.v # "[]"
      [] val.type = "dict" -> val.v # "{}"

\* _sanitize_metadata_value
SanitizeMetadataValue(val) ==
    CASE val.type = "NoneType" -> PyValue("str", "null")
      [] val.type \in {"str", "int", "bool"} -> val
      [] val.type = "list" -> IF Truthy(val) THEN Str(val) ELSE PyValue("str", "[]")
      [] val.type = "dict" -> IF Truthy(val) THEN Str(val) ELSE PyValue("str", "{}")

Sentinels == {PyValue("str", x) : x \in {"null", "[]", "{}", "empty"}}

\* add_embeddings, lines 171-181: the keys of the chunk's metadata that are
\* stored.
StoresKey(m, key) ==
    /\ ~(key \in {"parameters", "methods", "dependencies"} /\ ~Truthy(m[key]))
    /\ Truthy(SanitizeMetadataValue(m[key]))
    /\ SanitizeMetadataValue(m[key]) \notin Sentinels

\* add_embeddings, lines 156-181: the metadata stored for a result.
StoredMetadata(r) ==
    [key \in {k \in DOMAIN r.chunk.metadata : StoresKey(r.chunk.metadata, k)} |->
        SanitizeMetadataValue(r.chunk.metadata[key])]
    @@ BaseMetadata(r)

\* add_embeddings(<<r>>) for a result with metadata, on the empty
\* collection.
AddWithMetadataCall(r, fails) ==
    /\ collection = {}
    /\ collection' = IF fails THEN {}
                     ELSE BackendAdd({}, <<[RowOf(r) EXCEPT !.metadata = StoredMetadata(r)]>>)
    /\ ret' = IF fails THEN "False" ELSE "True"
    /\ op' = "add"
    /\ existed' = {}
    /\ known' = FALSE
    /\ ClearSearch
    /\ IndexOnly

AddWithMetadata ==
    \E r \in ResultsWithMetadata, fails \in BOOLEAN : AddWithMetadataCall(r, fails)

NextMetadata ==
    \/ AddWithMetadata
    \/ ResetCollection

(***************************************************************************)
(*            THE VECTOR INDEX: results of several embedders               *)
(***************************************************************************)

\* The vector a model yields for a text.  Lengths are scaled down: the
\* sentence transformer's vectors (384 long) have one coordinate, those of
\* CodeBERT and UniXcoder (768 long) have two.
VectorOf(model, content) ==
    CASE model = "all-MiniLM-L6-v2" -> EmbeddingOf(content)
      [] model = "microsoft/codebert-base" -> EmbeddingOf(content) \o <<1>>
      [] model = "microsoft/unixcoder-base" -> EmbeddingOf(content) \o <<2>>

\* What embedders of three models make of a function chunk of a.py and of
\* one of b.py: embedding_dimension is len(embedding).
ModelResults ==
    {[chunk |-> ch,
      embedding |-> VectorOf(model, ch.content),
      model_name |-> model,
      embedding_dimension |-> Len(VectorOf(model, ch.content))] :
        ch \in {c \in IndexChunks : c.element_type = "function" /\ c.content = "long"},
        model \in {"all-MiniLM-L6-v2", "microsoft/codebert-base",
                   "microsoft/unixcoder-base"}}

ModelBatches == SeqsUpTo(ModelResults, MaxBatch)

AddFromModels ==
    \E rs \in ModelBatches, fails \in BOOLEAN : AddEmbeddingsCall(rs, fails)

UpdateFromModels ==
    \E rs \in ModelBatches :
        \E failAt \in 0..Len(rs) : UpdateEmbeddingsCall(rs, failAt)

NextModels ==
    \/ AddFromModels
    \/ UpdateFromModels
    \/ DeleteByFile

(***************************************************************************)
(*                  THE EMBEDDER: embed_chunks_async                       *)
(***************************************************************************)

\* Bound of the embedder model: chunks handed to one embed_chunks_async call.
MaxChunks == 6

\* asyncio.Semaphore(5)
SemaphoreValue == 5

\* _initialize_model: the model the embedder runs (the sentence transformer).
ModelName == "all-MiniLM-L6-v2"

\* The chunk at position i of the submitted list: a function chunk of its
\* own line of a.py.  With a twin, the chunk at position 2 is the chunk of
\* position 1 seen as a method: the same file, lines, name and text, another
\* element kind.
ChunkAt(i, twin) ==
    IF twin /\ i = 2
    THEN [file_path |-> "a.py", start_line |-> 1, end_line |-> 1,
          element_name |-> "f", element_type |-> "method", chunk_type |-> "code",
          language |-> "python", content |-> "c1"]
    ELSE [file_path |-> "a.py", start_line |-> i, end_line |-> i,
          element_name |-> "f", element_type |-> "function", chunk_type |-> "code",
          language |-> "python", content |-> "c1"]

Submissions ==
    {[i \in 1..n |-> ChunkAt(i, twin)] : n \in 0..MaxChunks, twin \in BOOLEAN}

\* _get_cache_key: the six parts joined by "|"; hash(content) is taken to
\* tell any two texts apart.
GetCacheKey(chunk) ==
    <<chunk.file_path, ToString(chunk.start_line), ToString(chunk.end_line),
      OrElse(chunk.element_name, ""), ModelName, chunk.content>>

\* _prepare_text_for_embedding: language, kind, name and text of the chunk,
\* in this order (the chunks here carry no metadata and stay below the
\* context window).
PrepareTextForEmbedding(chunk) ==
    (IF chunk.language # NoneV THEN <<<<"Language", chunk.language>>>> ELSE <<>>)
    \o (IF OrElse(chunk.element_type, "") # ""
        THEN <<<<"Type", chunk.element_type>>>> ELSE <<>>)
    \o (IF OrElse(chunk.element_name, "") # ""
        THEN <<<<"Name", chunk.element_name>>>> ELSE <<>>)
    \o <<<<"Code", chunk.content>>>>

\* _generate_embedding and _normalize_embedding: the vector is a function of
\* the prepared text.
GenerateEmbedding(text) == [encoded |-> text]

\* embed_chunk, lines 130-135: the result of a model call.
EmbeddingResultOf(chunk) ==
    [chunk |-> chunk,
     embedding |-> GenerateEmbedding(PrepareTextForEmbedding(chunk)),
     model_name |-> ModelName,
     embedding_dimension |-> 1]

N == Len(submitted)
\* The value a task holds: nothing, or the one EmbeddingResult of its thread.
Pending == <<>>

\* The embed_chunk calls running in a worker thread.
InFlight == {i \in 1..N : task[i] \in {"check", "call"}}
\* The tasks inside `async with semaphore`.
Holders == {i \in 1..N : task[i] \in {"check", "call", "returned", "raised"}}

\* asyncio.Semaphore.acquire: free while fewer than its value hold it.
CanAcquireAlways(held) == TRUE
CanAcquire(held) == held < SemaphoreValue

InitAsync ==
    /\ submitted \in Submissions
    /\ task = [i \in 1..Len(submitted) |-> "queued"]
    /\ outcome = [i \in 1..Len(submitted) |-> Pending]
    /\ cache = <<>>
    /\ model_calls = [i \in 1..Len(submitted) |-> 0]
    /\ returned = [done |-> FALSE, results |-> <<>>]

AsyncOnly == UNCHANGED <<ixVars, ckVars, emVars, tkVars>>

\* embed_single_chunk enters `async with semaphore` and hands embed_chunk to
\* a thread: the tasks were created in list order and the semaphore wakes
\* its waiters in that order.
Acquire(i) ==
    /\ task[i] = "queued"
    /\ \A j \in 1..(i - 1) : task[j] # "queued"
    /\ CanAcquire(Cardinality(Holders))
    /\ task' = [task EXCEPT ![i] = "check"]
    /\ UNCHANGED <<submitted, outcome, cache, model_calls, returned>>
    /\ AsyncOnly

\* embed_chunk, lines 113-117: the cache lookup.
CheckCache(i) ==
    /\ task[i] = "check"
    /\ LET key == GetCacheKey(submitted[i])
       IN IF key \in DOMAIN cache
          THEN /\ task' = [task EXCEPT ![i] = "returned"]
               /\ outcome' = [outcome EXCEPT ![i] = <<cache[key]>>]
          ELSE /\ task' = [task EXCEPT ![i] = "call"]
               /\ UNCHANGED outcome
    /\ UNCHANGED <<submitted, cache, model_calls, returned>>
    /\ AsyncOnly

\* embed_chunk, lines 119-141: the model call succeeds, the result is cached
\* and returned.
ModelCallReturns(i) ==
    /\ task[i] = "call"
    /\ LET key == GetCacheKey(submitted[i])
           res == EmbeddingResultOf(submitted[i])
       IN /\ cache' = [k \in DOMAIN cache \cup {key} |->
                          IF k = key THEN res ELSE cache[k]]
          /\ outcome' = [outcome EXCEPT ![i] = <<res>>]
    /\ task' = [task EXCEPT ![i] = "returned"]
    /\ model_calls' = [model_calls EXCEPT ![i] = @ + 1]
    /\ UNCHANGED <<submitted, returned>>
    /\ AsyncOnly

\* embed_chunk, lines 143-147: the model call raises, embed_chunk raises
\* EmbeddingError.
ModelCallRaises(i) ==
    /\ task[i] = "call"
    /\ task' = [task EXCEPT ![i] = "raised"]
    /\ model_calls' = [model_calls EXCEPT ![i] = @ + 1]
    /\ UNCHANGED <<submitted, outcome, cache, returned>>
    /\ AsyncOnly

\* embed_single_chunk, lines 199-204: the task resumes with the thread's
\* result, or catches its exception and returns None, and leaves the
\* semaphore.
Release(i) ==
    /\ task[i] \in {"returned", "raised"}
    /\ task' = [task EXCEPT ![i] = "done"]
    /\ UNCHANGED <<submitted, outcome, cache, model_calls, returned>>
    /\ AsyncOnly

\* The results gather yields that are EmbeddingResults, in list order.
RECURSIVE ValidResults(_, _)
ValidResults(out, i) ==
    IF i > Len(out) THEN <<>>
    ELSE IF out[i] # <<>> THEN out[i] \o ValidResults(out, i + 1)
         ELSE ValidResults(out, i + 1)

\* embed_chunks_async, lines 210-216: gather has all results.
Gather ==
    /\ ~returned.done
    /\ \A i \in 1..N : task[i] = "done"
    /\ returned' = [done |-> TRUE, results |-> ValidResults(outcome, 1)]
    /\ UNCHANGED <<submitted, task, outcome, cache, model_calls>>
    /\ AsyncOnly

NextAsync ==
    \/ \E i \in 1..N : Acquire(i)
    \/ \E i \in 1..N : CheckCache(i)
    \/ \E i \in 1..N : ModelCallReturns(i)
    \/ \E i \in 1..N : ModelCallRaises(i)
    \/ \E i \in 1..N : Release(i)
    \/ Gather

(***************************************************************************)
(*            THE EMBEDDER: embed_chunk and embed_chunks_batch             *)
(***************************************************************************)

\* Bounds of this model: the chunks handed to one embed_chunks_batch call,
\* config.batch_size (32 in EmbeddingConfig), and the model calls of
\* embed_chunk that raise.
MaxCall == 3
BatchSize == 2
MaxFailures == 1

\* EmbeddingConfig.max_retries and retry_delay (seconds)
MaxRetries == 3
RetryDelay == 1

GoogleModelName == "models/text-embedding-004"

\* EmbeddingModel: the hosted model and one of the local ones (CodeT5,
\* UniXcoder and the sentence transformer are set up exactly like CodeBERT).
EmbeddingModels == {"google_embedding", "codebert"}

\* _initialize_model: the name each branch assigns to model_name
ModelNameOf(model) ==
    CASE model = "google_embedding" -> GoogleModelName
      [] model = "codebert" -> "microsoft/codebert-base"
      [] model = "sentence_transformer" -> ModelName

\* The length of the vectors a model yields.
DimensionOf(name) == IF name = ModelName THEN 384 ELSE 768

\* _initialize_model: the fields of the embedder afterwards; fails: the
\* branch of the configured model raises.  fell_back records which of the
\* two it was.
InitializeModel(model, fails) ==
    IF fails
    THEN [config_model |-> model,
          model |-> ModelName,
          model_name |-> ModelName,
          embedding_dimension |-> DimensionOf(ModelName),
          fell_back |-> TRUE]
    ELSE [config_model |-> model,
          model |-> IF model = "google_embedding" THEN NoneV ELSE ModelNameOf(model),
          model_name |-> ModelNameOf(model),
          embedding_dimension |-> DimensionOf(ModelNameOf(model)),
          fell_back |-> FALSE]

\* _generate_embedding, _process_batch: the model that computes the vectors,
\* chosen by config.model.
ServingModel(e) ==
    IF e.config_model = "google_embedding" THEN GoogleModelName ELSE e.model

\* _generate_embedding: the vector is a function of the serving model and of
\* the prepared text.
GenerateEmbeddingWith(e, text) == [model |-> ServingModel(e), encoded |-> text]

\* The EmbeddingResult that embed_chunk (lines 130-135) and the batch paths
\* (lines 247-252, 285-290) build: embedding_dimension is len(embedding).
EmbeddingResult(e, chunk) ==
    [chunk |-> chunk,
     embedding |-> GenerateEmbeddingWith(e, PrepareTextForEmbedding(chunk)),
     model_name |-> e.model_name,
     embedding_dimension |-> DimensionOf(ServingModel(e))]

\* _get_cache_key, with the embedder's model_name
CacheKey(e, chunk) ==
    <<chunk.file_path, ToString(chunk.start_line), ToString(chunk.end_line),
      OrElse(chunk.element_name, ""), e.model_name, chunk.content>>

\* The chunks of the calls: position 2 is the chunk of position 1 seen as a
\* method, so the two share their cache key.
CallChunks == {[i \in 1..n |-> ChunkAt(i, TRUE)] : n \in 0..MaxCall}
Keys(e) == {CacheKey(e, ChunkAt(i, TRUE)) : i \in 1..MaxCall}

\* embed_chunk, lines 113-117: the cache lookup (config.cache_embeddings).
NeverCached(c, key) == FALSE
IsCached(c, key) == key \in DOMAIN c

\* An exception: its type, the chunk its message and fields name, the
\* exception it was raised from (__cause__) and the one that was being
\* handled when it was raised (__context__).
NoError ==
    [type |-> NoneV, element_name |-> NoneV, file_path |-> NoneV,
     cause |-> NoneV, context |-> NoneV]

\* EmbeddingError.__init__(self, message, model_name=None): the arguments
\* it takes.
EmbeddingErrorParameters == {"message", "model_name"}

\* embed_chunk, lines 143-147: `raise EmbeddingError(message,
\* chunk_info=...) from e`.  The exception is built first; a keyword that
\* __init__ does not take makes the call raise TypeError inside the handler.
RaiseEmbeddingError(chunk, e) ==
    IF {"message", "chunk_info"} \subseteq EmbeddingErrorParameters
    THEN [type |-> "EmbeddingError", element_name |-> chunk.element_name,
          file_path |-> chunk.file_path, cause |-> e, context |-> e]
    ELSE [type |-> "TypeError", element_name |-> NoneV, file_path |-> NoneV,
          cause |-> NoneV, context |-> e]

\* embed_chunk(chunk) on cache c; fails: the model call raises.
EmbedChunkOutcome(e, c, chunk, fails) ==
    LET key == CacheKey(e, chunk)
        res == EmbeddingResult(e, chunk)
    IN IF IsCached(c, key)
       THEN [cache |-> c, raised |-> FALSE, result |-> <<c[key]>>,
             hit |-> TRUE, called |-> FALSE, error |-> NoError]
       ELSE IF fails
            THEN [cache |-> c, raised |-> TRUE, result |-> <<>>,
                  hit |-> FALSE, called |-> TRUE,
                  error |-> RaiseEmbeddingError(chunk, "model call failed")]
            ELSE [cache |-> [k \in DOMAIN c \cup {key} |->
                                IF k = key THEN res ELSE c[k]],
                  raised |-> FALSE, result |-> <<res>>,
                  hit |-> FALSE, called |-> TRUE, error |-> NoError]

\* The model calls of embed_chunk, counted per cache key.
Counted(calls, key, out) ==
    [calls EXCEPT ![key] = [calls |-> @.calls + (IF out.called THEN 1 ELSE 0),
                            raised |-> @.raised + (IF out.raised THEN 1 ELSE 0)]]

\* The model calls of embed_chunk that raised so far.
RECURSIVE Raised(_, _)
Raised(calls, keys) ==
    IF keys = {} THEN 0
    ELSE LET k == CHOOSE x \in keys : TRUE
         IN calls[k].raised + Raised(calls, keys \ {k})

\* What is noted of the processing of one chunk: its position in the list,
\* the path that processed it ("google", "batch" or "embed_chunk"), the model
\* calls attempted, the waits between them, whether a result came out of it
\* and whether it came from the cache.
LogEntry(at, via, attempts, waits, ok, hit) ==
    [at |-> at, via |-> via, attempts |-> attempts, waits |-> waits,
     ok |-> ok, hit |-> hit]

NoFrame ==
    [call |-> "none", pc |-> "idle", chunks |-> <<>>, i |-> 0, j |-> 0,
     retries |-> 0, waits |-> <<>>, batch_results |-> <<>>, results |-> <<>>,
     log |-> <<>>]
NoValue ==
    [of |-> "none", args |-> <<>>, raised |-> FALSE, error |-> NoError,
     results |-> <<>>, log |-> <<>>]

InitEmbed ==
    /\ \E model \in EmbeddingModels, fails \in BOOLEAN :
            embedder = InitializeModel(model, fails)
    /\ self_cache = <<>>
    /\ embed_calls = [k \in Keys(embedder) |-> [calls |-> 0, raised |-> 0]]
    /\ frame = NoFrame
    /\ value = NoValue

EmbedOnly == UNCHANGED <<ixVars, asVars, ckVars, tkVars>>

\* embed_chunk(chunk), called by itself.
EmbedChunkCall(chunk, fails) ==
    LET out == EmbedChunkOutcome(embedder, self_cache, chunk, fails)
        key == CacheKey(embedder, chunk)
    IN /\ frame = NoFrame
       /\ out.raised => Raised(embed_calls, DOMAIN embed_calls) < MaxFailures
       /\ self_cache' = out.cache
       /\ embed_calls' = Counted(embed_calls, key, out)
       /\ value' = [of |-> "embed_chunk", args |-> <<chunk>>, raised |-> out.raised,
                    error |-> out.error,
                    results |-> out.result,
                    log |-> <<LogEntry(1, "embed_chunk",
                                       IF out.called THEN 1 ELSE 0, <<>>,
                                       ~out.raised, out.hit)>>]
       /\ UNCHANGED <<embedder, frame>>
       /\ EmbedOnly

EmbedChunk ==
    \E i \in 1..MaxCall, fails \in BOOLEAN : EmbedChunkCall(ChunkAt(i, TRUE), fails)

\* embed_chunks_batch(chunks), lines 158-161
EmbedChunksBatch ==
    \E list \in CallChunks :
        /\ frame = NoFrame
        /\ frame' = [NoFrame EXCEPT !.call = "embed_chunks_batch", !.pc = "for",
                                    !.chunks = list, !.i = 1]
        /\ value' = NoValue
        /\ UNCHANGED <<embedder, self_cache, embed_calls>>
        /\ EmbedOnly

\* The last position of the batch that starts at position i.
BatchEnd(f) == Min2(f.i + BatchSize - 1, Len(f.chunks))

\* embed_chunks_batch, lines 161-165, and _process_batch: the next batch goes
\* to the path that config.model selects.
ProcessBatch ==
    /\ frame.pc = "for"
    /\ frame.i <= Len(frame.chunks)
    /\ frame' = [frame EXCEPT
                    !.pc = IF embedder.config_model = "google_embedding"
                           THEN "google" ELSE "transformer",
                    !.j = frame.i, !.retries = 0, !.waits = <<>>,
                    !.batch_results = <<>>]
    /\ UNCHANGED <<embedder, self_cache, embed_calls, value>>
    /\ EmbedOnly

\* _process_google_batch, lines 257-263: where the handler of a failed
\* attempt leaves the retry loop
GivesUpAtOnce(retries) == TRUE
GivesUp(retries) == ~(retries < MaxRetries)

\* _process_google_batch, lines 229-263: one attempt for the chunk at j.
GoogleAttempt(succeeds) ==
    /\ frame.pc = "google"
    /\ frame.j <= BatchEnd(frame)
    /\ frame.retries < MaxRetries
    /\ LET chunk == frame.chunks[frame.j]
           retries == frame.retries + 1
       IN frame' =
            IF succeeds
            THEN [frame EXCEPT
                    !.batch_results = Append(@, EmbeddingResult(embedder, chunk)),
                    !.log = Append(@, LogEntry(frame.j, "google", retries,
                                               frame.waits, TRUE, FALSE)),
                    !.j = @ + 1, !.retries = 0, !.waits = <<>>]
            ELSE IF ~GivesUp(retries)
                 THEN [frame EXCEPT
                         !.retries = retries,
                         !.waits = Append(@, RetryDelay * retries)]
                 ELSE [frame EXCEPT
                         !.log = Append(@, LogEntry(frame.j, "google", retries,
                                                    frame.waits, FALSE, FALSE)),
                         !.j = @ + 1, !.retries = 0, !.waits = <<>>]
    /\ UNCHANGED <<embedder, self_cache, embed_calls, value>>
    /\ EmbedOnly

\* _process_transformer_batch, lines 272-292: the texts are prepared and
\* encoded in one model call.  The call returns ("encoded"), or it raises and
\* the handler of line 294 takes over ("encode_raises"), or preparing the
\* texts raises and the handler of embed_chunks_batch, line 174, takes over
\* ("prepare_raises").  The loop of lines 279-292 that builds the records is
\* inside the same try: when it raises after it has appended the records of
\* the first k chunks, those stay in the list the handler of line 294 appends
\* to ("loop_raises").
BatchResults(e, f) ==
    [k \in 1..(BatchEnd(f) - f.i + 1) |-> EmbeddingResult(e, f.chunks[f.i + k - 1])]
BatchLog(f) ==
    [k \in 1..(BatchEnd(f) - f.i + 1) |->
        LogEntry(f.i + k - 1, "batch", 1, <<>>, TRUE, FALSE)]

\* Where the two handlers of a failed batch go.
SkipBatch(handler) == "end"
ExceptBatch(handler) == handler

TransformerOutcomes == {"encoded", "encode_raises", "prepare_raises", "loop_raises"}

TransformerBatch(how) ==
    /\ frame.pc = "transformer"
    /\ IF how = "loop_raises"
       THEN \E k \in 1..(BatchEnd(frame) - frame.i) :
                frame' = [frame EXCEPT
                            !.pc = ExceptBatch("inner_fallback"),
                            !.batch_results =
                                SubSeq(BatchResults(embedder, frame), 1, k),
                            !.log = @ \o SubSeq(BatchLog(frame), 1, k)]
       ELSE frame' =
         IF how = "encoded"
         THEN [frame EXCEPT !.pc = "end",
                            !.batch_results = BatchResults(embedder, frame),
                            !.log = @ \o BatchLog(frame), !.j = BatchEnd(frame) + 1]
         ELSE IF how = "encode_raises"
              THEN [frame EXCEPT !.pc = ExceptBatch("inner_fallback")]
              ELSE [frame EXCEPT !.pc = ExceptBatch("outer_fallback")]
    /\ UNCHANGED <<embedder, self_cache, embed_calls, value>>
    /\ EmbedOnly

\* Lines 297-302 and 177-182: the chunk at j goes through embed_chunk; what
\* it raises is logged and the chunk is left out.
FallbackEmbedChunk(fails) ==
    /\ frame.pc \in {"inner_fallback", "outer_fallback"}
    /\ frame.j <= BatchEnd(frame)
    /\ LET chunk == frame.chunks[frame.j]
           key == CacheKey(embedder, chunk)
           out == EmbedChunkOutcome(embedder, self_cache, chunk, fails)
           entry == LogEntry(frame.j, "embed_chunk", IF out.called THEN 1 ELSE 0,
                             <<>>, ~out.raised, out.hit)
       IN /\ out.raised => Raised(embed_calls, DOMAIN embed_calls) < MaxFailures
          /\ self_cache' = out.cache
          /\ embed_calls' = Counted(embed_calls, key, out)
          /\ frame' =
                IF frame.pc = "inner_fallback"
                THEN [frame EXCEPT !.batch_results = @ \o out.result,
                                   !.log = Append(@, entry), !.j = @ + 1]
                ELSE [frame EXCEPT !.results = @ \o out.result,
                                   !.log = Append(@, entry), !.j = @ + 1]
    /\ UNCHANGED <<embedder, value>>
    /\ EmbedOnly

\* The batch is done: _process_batch returns and line 166 extends the
\* results, or the handler of line 174 has gone through the batch; the loop
\* of line 161 goes on.
EndBatch ==
    /\ \/ frame.pc = "end"
       \/ frame.pc \in {"google", "inner_fallback", "outer_fallback"}
            /\ frame.j > BatchEnd(frame)
    /\ frame' = [frame EXCEPT
                    !.results = IF frame.pc = "outer_fallback" THEN @
                                ELSE @ \o frame.batch_results,
                    !.batch_results = <<>>,
                    !.i = @ + BatchSize, !.j = 0, !.pc = "for"]
    /\ UNCHANGED <<embedder, self_cache, embed_calls, value>>
    /\ EmbedOnly

\* embed_chunks_batch, lines 184-185
ReturnBatch ==
    /\ frame.pc = "for"
    /\ frame.i > Len(frame.chunks)
    /\ value' = [of |-> "embed_chunks_batch", args |-> frame.chunks, raised |-> FALSE,
                 error |-> NoError,
                 results |-> frame.results, log |-> frame.log]
    /\ frame' = NoFrame
    /\ UNCHANGED <<embedder, self_cache, embed_calls>>
    /\ EmbedOnly

NextEmbed ==
    \/ EmbedChunk
    \/ EmbedChunksBatch
    \/ ProcessBatch
    \/ \E succeeds \in BOOLEAN : GoogleAttempt(succeeds)
    \/ \E how \in TransformerOutcomes : TransformerBatch(how)
    \/ \E fails \in BOOLEAN : FallbackEmbedChunk(fails)
    \/ EndBatch
    \/ ReturnBatch

(***************************************************************************)
(*                    THE CHUNKER: chunk_file                              *)
(***************************************************************************)

\* Bounds of the chunker model: code blocks of one file, and the width of a
\* docstring line.
MaxBlocks == 2
DocLineLen == 20

\* ChunkingConfig defaults and the numbers written into the chunker.
MaxChunkSize == 1000
MinChunkSize == 100
OverlapSize == 100
CharsPerLine == 50
ContextLines == 3
ComplexityThreshold == 10
ProximityLines == 10

Strategies ==
    {"function_based", "class_based", "semantic_blocks", "sliding_window", "hybrid"}

\* A file is lines of one width; a text is the sequence of its lines, each
\* named by what it is: k > 0 is line k of the file, 0 is an empty line, and
\* k < 0 is a line of a docstring.
FileLines(f) == [k \in 1..f.nlines |-> k]
LineLen(tok, f) ==
    IF tok > 0 THEN f.linelen ELSE IF tok = 0 THEN 0 ELSE DocLineLen

RECURSIVE SumLen(_, _, _)
SumLen(text, f, i) ==
    IF i > Len(text) THEN 0 ELSE LineLen(text[i], f) + SumLen(text, f, i + 1)

\* len(content): the lines and the newlines between them.
CharLen(text, f) == SumLen(text, f, 1) + (Len(text) - 1)

\* lines[a:b] of Python, for 0 <= a.
Slice(lines, a, b) ==
    LET hi == Min2(b, Len(lines))
    IN IF a >= hi THEN <<>> ELSE [k \in 1..(hi - a) |-> lines[a + k]]

\* seq[-k:] of Python, for k >= 1.
LastK(seq, k) == Slice(seq, Max2(0, Len(seq) - k), Len(seq))

\* '\n'.join and '\n\n'.join of texts; the empty string is one empty line.
AsText(lines) == IF lines = <<>> THEN <<0>> ELSE lines
JoinBlank(a, b) == a \o <<0>> \o b

\* ---- the files ----
BlockKinds ==
    {"import", "function", "documented", "stub", "long_function", "complex_class",
     "simple_class"}
LineLens == {10, 60, 1000}
LeadLines == {0, 3}

BlockLines(kind) ==
    CASE kind \in {"import", "stub"} -> 1
      [] kind \in {"function", "documented"} -> 3
      [] kind = "long_function" -> 18
      [] OTHER -> 8

FunctionNames == <<"add", "sub", "mul", "div">>
ClassNames == <<"Calculator", "Builder", "Parser", "Router">>

\* name[:3]
NameStem(name) ==
    CASE name = "Calculator" -> "Cal"
      [] name = "Builder" -> "Bui"
      [] name = "Parser" -> "Par"
      [] name = "Router" -> "Rou"
      [] name = "__init__" -> "__i"
      [] OTHER -> name

CodeElement(name, type, s, e, doc, score, parent) ==
    [name |-> name, element_type |-> type, start_line |-> s, end_line |-> e,
     docstring |-> doc, complexity_score |-> score, parent_element |-> parent,
     dependencies |-> {}]

FunctionBlocks == {"function", "documented", "stub", "long_function"}
ClassBlocks == {"complex_class", "simple_class"}

\* The elements the parser reports for the p-th block of a file, which
\* starts at line s: the element itself and, for a class with a method, the
\* method after it, as a function whose parent is the class.
ElementsOfBlock(kinds, p, s) ==
    LET kind == kinds[p]
        e == s + BlockLines(kind) - 1
        fn == FunctionNames[Cardinality({q \in 1..p : kinds[q] \in FunctionBlocks})]
        cn == ClassNames[Cardinality({q \in 1..p : kinds[q] \in ClassBlocks})]
    IN CASE kind = "import" ->
              <<CodeElement("os", "import", s, e, <<>>, 1, NoneV)>>
         [] kind = "function" ->
              <<CodeElement(fn, "function", s, e, <<>>, 3 + 2, NoneV)>>
         [] kind = "documented" ->
              <<CodeElement(fn, "function", s, e, <<-1>>, 3 + 2, NoneV)>>
         [] kind = "stub" ->
              <<CodeElement(fn, "function", s, e, <<-1>>, 1 + 2, NoneV)>>
         [] kind = "long_function" ->
              <<CodeElement(fn, "function", s, e, <<>>, 18 + 2, NoneV)>>
         [] kind = "complex_class" ->
              <<CodeElement(cn, "class", s, e, <<>>, 15, NoneV),
                CodeElement("__init__", "function", s + 1, s + 3, <<>>, 3 + 4, cn)>>
         [] OTHER ->
              <<CodeElement(cn, "class", s, e, <<>>, 5, NoneV)>>

\* The blocks follow each other with one line between them.
RECURSIVE Place(_, _, _)
Place(kinds, p, s) ==
    IF p > Len(kinds) THEN <<>>
    ELSE ElementsOfBlock(kinds, p, s)
         \o Place(kinds, p + 1, s + BlockLines(kinds[p]) + 1)

RECURSIVE LayoutLines(_, _)
LayoutLines(kinds, p) ==
    IF p > Len(kinds) THEN 0
    ELSE BlockLines(kinds[p]) + (IF p < Len(kinds) THEN 1 ELSE 0)
         + LayoutLines(kinds, p + 1)

FileOf(path, lead, width, kinds) ==
    [path |-> path, language |-> "python",
     nlines |-> lead + LayoutLines(kinds, 1), linelen |-> width,
     elements |-> Place(kinds, 1, lead + 1)]

Files(path) ==
    {FileOf(path, lead, width, kinds) :
        lead \in LeadLines, width \in LineLens,
        kinds \in {k \in SeqsUpTo(BlockKinds, MaxBlocks) : k # <<>>}}

NoFile == [path |-> NoneV, language |-> NoneV, nlines |-> 0, linelen |-> 0,
           elements |-> <<>>]

\* ---- the chunks ----
\* A chunk's metadata: the keys it has and the values of the keys of
\* trimming and merging (a key the chunk lacks has its empty value here).
Metadata(keys) ==
    [keys |-> keys, trimmed |-> FALSE, original_lines |-> 0,
     merged_chunk |-> FALSE, original_chunks |-> 0,
     element_names |-> <<>>, element_types |-> {}]

DocumentChunk(content, chunk_type, language, path, s, e, name, type, metadata) ==
    [content |-> content, chunk_type |-> chunk_type, language |-> language,
     file_path |-> path, start_line |-> s, end_line |-> e,
     element_name |-> name, element_type |-> type, metadata |-> metadata]

ElementsOfType(f, types) ==
    SelectSeq(f.elements, LAMBDA e : e.element_type \in types)

\* _extract_element_content
ExtractElementContent(element, lines) ==
    AsText(Slice(lines, Max2(0, element.start_line - 1), Min2(Len(lines), element.end_line)))

RECURSIVE RelevantImportLines(_, _, _, _)
RelevantImportLines(imports, element, lines, i) ==
    IF i > Len(imports) THEN <<>>
    ELSE (IF imports[i].dependencies \cap element.dependencies # {}
          THEN Slice(lines, imports[i].start_line - 1, imports[i].end_line)
          ELSE <<>>)
         \o RelevantImportLines(imports, element, lines, i + 1)

\* _add_context, with include_imports on
AddContext(element, lines, f) ==
    LET start_idx == Max2(0, element.start_line - 1 - ContextLines)
        end_idx == Min2(Len(lines), element.end_line + ContextLines)
        import_lines == RelevantImportLines(ElementsOfType(f, {"import"}), element, lines, 1)
    IN IF import_lines # <<>>
       THEN JoinBlank(import_lines, AsText(Slice(lines, start_idx, end_idx)))
       ELSE AsText(Slice(lines, start_idx, end_idx))

FunctionKeys ==
    {"function_name", "complexity_score", "parameters", "return_type",
     "docstring", "decorators", "parent_class"}
ClassKeys ==
    {"class_name", "inheritance", "methods", "decorators", "complexity_score"}

\* _chunk_by_functions, with include_context and include_docstrings on: the
\* chunks of one function or method.
FunctionChunks(func, f) ==
    <<DocumentChunk(AddContext(func, FileLines(f), f), "code", f.language, f.path,
                    func.start_line, func.end_line, func.name, func.element_type,
                    Metadata(FunctionKeys))>>
    \o (IF func.docstring # <<>>
        THEN <<DocumentChunk(func.docstring, "docstring", f.language, f.path,
                             func.start_line, func.start_line + (Len(func.docstring) - 1),
                             func.name, func.element_type,
                             Metadata({"function_name", "docstring_type"}))>>
        ELSE <<>>)

RECURSIVE FlatMap(_, _, _)
FlatMap(Op(_), seq, i) ==
    IF i > Len(seq) THEN <<>> ELSE Op(seq[i]) \o FlatMap(Op, seq, i + 1)

ChunkByFunctions(f) ==
    FlatMap(LAMBDA func : FunctionChunks(func, f),
            ElementsOfType(f, {"function", "method"}), 1)

\* _chunk_by_classes: the chunks of one class.
ClassChunks(cls, f) ==
    <<DocumentChunk(ExtractElementContent(cls, FileLines(f)), "code", f.language, f.path,
                    cls.start_line, cls.end_line, cls.name, cls.element_type,
                    Metadata(ClassKeys))>>
    \o (IF cls.docstring # <<>>
        THEN <<DocumentChunk(cls.docstring, "docstring", f.language, f.path,
                             cls.start_line, cls.start_line + (Len(cls.docstring) - 1),
                             cls.name, cls.element_type,
                             Metadata({"class_name", "docstring_type"}))>>
        ELSE <<>>)

ChunkByClasses(f) ==
    FlatMap(LAMBDA cls : ClassChunks(cls, f), ElementsOfType(f, {"class"}), 1)

\* _are_semantically_related
AreSemanticallyRelated(elem1, elem2) ==
    \/ elem1.parent_element # NoneV /\ elem1.parent_element = elem2.parent_element
    \/ NameStem(elem1.name) = NameStem(elem2.name)
    \/ elem1.start_line - elem2.end_line \in (0 - ProximityLines)..ProximityLines
    \/ elem2.name \in elem1.dependencies
    \/ elem1.name \in elem2.dependencies

\* _group_semantic_elements, the inner loop: the elements related to
\* `element` that are not used yet join its group.
RECURSIVE CollectRelated(_, _, _, _)
CollectRelated(elements, element, j, acc) ==
    IF j > Len(elements) THEN acc
    ELSE IF elements[j].name \notin acc.used /\ AreSemanticallyRelated(element, elements[j])
         THEN CollectRelated(elements, element, j + 1,
                  [group |-> Append(acc.group, elements[j]),
                   used |-> acc.used \cup {elements[j].name}])
         ELSE CollectRelated(elements, element, j + 1, acc)

\* _group_semantic_elements, the outer loop.
RECURSIVE GroupSemanticElements(_, _, _)
GroupSemanticElements(elements, i, used) ==
    IF i > Len(elements) THEN <<>>
    ELSE IF elements[i].name \in used THEN GroupSemanticElements(elements, i + 1, used)
    ELSE LET got == CollectRelated(elements, elements[i], 1,
                        [group |-> <<elements[i]>>, used |-> used \cup {elements[i].name}])
         IN (IF Len(got.group) > 1 \/ elements[i].element_type \in {"class", "function"}
             THEN <<got.group>> ELSE <<>>)
            \o GroupSemanticElements(elements, i + 1, got.used)

MaxOfNat(S) == IF S = {} THEN 0 ELSE CHOOSE y \in S : \A z \in S : y >= z
MinOf(S) == LET x == CHOOSE y \in S : \A z \in S : y <= z IN x
MaxOf(S) == LET x == CHOOSE y \in S : \A z \in S : y >= z IN x

SpanName(prefix, s, e) == prefix \o ToString(s) \o "_" \o ToString(e)

\* _chunk_semantic_blocks: the chunk of one group.
SemanticChunk(group, f) ==
    LET start_line == MinOf({e.start_line : e \in Range(group)})
        end_line == MaxOf({e.end_line : e \in Range(group)})
    IN <<DocumentChunk(AsText(Slice(FileLines(f), start_line - 1, end_line)), "code",
                       f.language, f.path, start_line, end_line,
                       SpanName("semantic_block_", start_line, end_line), NoneV,
                       Metadata({"semantic_group", "elements", "group_size"}))>>

ChunkSemanticBlocks(f) ==
    FlatMap(LAMBDA group : SemanticChunk(group, f),
            GroupSemanticElements(f.elements, 1, {}), 1)

\* The sliding-window chunk of lines `current` that starts at line s and
\* ends at line e.
WindowChunk(current, path, s, e) ==
    DocumentChunk(current, "code", NoneV, path, s, e, SpanName("chunk_", s, e), NoneV,
                  Metadata({"chunking_method"}))

\* _sliding_window_chunking, the loop over the lines from line i on, with
\* the lines gathered so far and the start line of the chunk being built;
\* after the last line, the final chunk.
RECURSIVE SlidingLoop(_, _, _, _, _)
SlidingLoop(f, lines, i, current_chunk, chunk_start_line) ==
    IF i > Len(lines)
    THEN IF current_chunk # <<>>
         THEN <<WindowChunk(current_chunk, f.path, chunk_start_line, Len(lines))>>
         ELSE <<>>
    ELSE LET grown == Append(current_chunk, lines[i])
             current_size == SumLen(grown, f, 1) + Len(grown)
             overlap_lines == Max2(1, OverlapSize \div CharsPerLine)
         IN IF current_size >= MaxChunkSize
            THEN <<WindowChunk(grown, f.path, chunk_start_line, i)>>
                 \o SlidingLoop(f, lines, i + 1, LastK(grown, overlap_lines),
                                i - overlap_lines + 1)
            ELSE SlidingLoop(f, lines, i + 1, grown, chunk_start_line)

\* _sliding_window_chunking: content.split('\n') of a text has at least one
\* line.
SlidingWindowChunking(f) == SlidingLoop(f, AsText(FileLines(f)), 1, <<>>, 1)

\* _hybrid_chunking, line 338
IsComplexAlways(cls) == TRUE
IsComplex(cls) == cls.complexity_score # 0 /\ cls.complexity_score > ComplexityThreshold

ComplexClassChunk(cls, f) ==
    <<DocumentChunk(ExtractElementContent(cls, FileLines(f)), "code", f.language, f.path,
                    cls.start_line, cls.end_line, cls.name, cls.element_type,
                    Metadata({"class_name", "chunking_reason", "complexity_score"}))>>

ImportLines(f) ==
    FlatMap(LAMBDA imp : Slice(FileLines(f), imp.start_line - 1, imp.end_line),
            ElementsOfType(f, {"import"}), 1)

\* _hybrid_chunking, with preserve_functions, preserve_classes and
\* include_imports on.
HybridChunking(f) ==
    ChunkByFunctions(f)
    \o FlatMap(LAMBDA cls : ComplexClassChunk(cls, f),
               SelectSeq(ElementsOfType(f, {"class"}), IsComplex), 1)
    \o (IF ImportLines(f) # <<>>
        THEN <<DocumentChunk(ImportLines(f), "code", f.language, f.path,
                             1, Len(ImportLines(f)), "imports", "import",
                             Metadata({"chunk_type", "import_count"}))>>
        ELSE <<>>)

\* chunk_file, lines 79-88
ApplyStrategyTo(f, strat) ==
    CASE strat = "function_based" -> ChunkByFunctions(f)
      [] strat = "class_based" -> ChunkByClasses(f)
      [] strat = "semantic_blocks" -> ChunkSemanticBlocks(f)
      [] strat = "sliding_window" -> SlidingWindowChunking(f)
      [] OTHER -> HybridChunking(f)

\* _trim_chunk
TrimChunk(chunk) ==
    LET target_lines == MaxChunkSize \div CharsPerLine
    IN IF Len(chunk.content) > target_lines
       THEN [chunk EXCEPT
                !.content = Slice(chunk.content, 0, target_lines),
                !.end_line = chunk.start_line + target_lines - 1,
                !.metadata = [chunk.metadata EXCEPT
                    !.keys = @ \cup {"trimmed", "original_lines"},
                    !.trimmed = TRUE,
                    !.original_lines = Len(chunk.content)]]
       ELSE chunk

\* _post_process_chunks, line 470: the chunks kept whatever their size
IsImportantNever(chunk) == FALSE
IsImportant(chunk) == chunk.element_type \in {"class", "function"}

\* _post_process_chunks, the loop: drop the chunks that are too small, trim
\* the ones that are too large.
DropAndTrim(chunk, f) ==
    IF CharLen(chunk.content, f) < MinChunkSize /\ ~IsImportant(chunk) THEN <<>>
    ELSE IF CharLen(chunk.content, f) > MaxChunkSize THEN <<TrimChunk(chunk)>>
    ELSE <<chunk>>

RECURSIVE NamesOf(_, _)
NamesOf(group, i) ==
    IF i > Len(group) THEN <<>>
    ELSE (IF group[i].element_name \notin {NoneV, ""} THEN <<group[i].element_name>> ELSE <<>>)
         \o NamesOf(group, i + 1)

RECURSIVE JoinContents(_, _)
JoinContents(group, i) ==
    IF i = Len(group) THEN group[i].content
    ELSE JoinBlank(group[i].content, JoinContents(group, i + 1))

\* _create_merged_chunk
CreateMergedChunk(group) ==
    LET start_line == MinOf({c.start_line : c \in Range(group)})
        end_line == MaxOf({c.end_line : c \in Range(group)})
    IN DocumentChunk(JoinContents(group, 1), "code", group[1].language, group[1].file_path,
                     start_line, end_line, SpanName("merged_", start_line, end_line), NoneV,
                     [Metadata({"merged_chunk", "original_chunks", "element_names",
                                "element_types"}) EXCEPT
                         !.merged_chunk = TRUE,
                         !.original_chunks = Len(group),
                         !.element_names = NamesOf(group, 1),
                         !.element_types = {c.element_type : c \in Range(group)} \ {NoneV, ""}])

\* _merge_small_chunks: a group that ends.
CloseGroup(current_group) ==
    IF current_group = <<>> THEN <<>>
    ELSE IF Len(current_group) = 1 THEN current_group
    ELSE <<CreateMergedChunk(current_group)>>

\* _merge_small_chunks, the loop from chunk i on with the group gathered so
\* far.
RECURSIVE MergeLoop(_, _, _, _)
MergeLoop(cs, f, i, current_group) ==
    IF i > Len(cs) THEN CloseGroup(current_group)
    ELSE IF CharLen(cs[i].content, f) < MinChunkSize * 2
         THEN MergeLoop(cs, f, i + 1, Append(current_group, cs[i]))
         ELSE CloseGroup(current_group) \o <<cs[i]>> \o MergeLoop(cs, f, i + 1, <<>>)

MergeSmallChunks(cs, f) == MergeLoop(cs, f, 1, <<>>)

\* _post_process_chunks, with merge_small_functions on
PostProcessChunks(cs, f) ==
    MergeSmallChunks(FlatMap(LAMBDA chunk : DropAndTrim(chunk, f), cs, 1), f)

\* ---- chunk_repository and chunk_file ----
\* The supported files of the repository, in the order of the loop.
Repo == <<"a.py", "b.py">>

InitChunk ==
    /\ todo = Repo
    /\ all_chunks = <<>>
    /\ file = NoFile
    /\ strategy \in Strategies
    /\ pc = "idle"
    /\ fault = "none"
    /\ opened = NoneV
    /\ chunks = <<>>
    /\ result = <<>>

ChunkOnly == UNCHANGED <<ixVars, asVars, emVars, tkVars>>

\* chunk_file, lines 96-98: where an exception inside the try block leads.
Reraise(step) == "raised"
ExceptException(step) == "fallback"

\* chunk_repository, lines 120-121: the loop calls chunk_file for a file
\* not chunked yet.
BeginFile ==
    /\ pc = "idle"
    /\ todo # <<>>
    /\ file' \in Files(Head(todo))
    /\ pc' = "create_parser"
    /\ UNCHANGED <<todo, all_chunks, strategy, fault, opened, chunks, result>>
    /\ ChunkOnly

\* chunk_file, lines 65-68: the factory yields a parser or None.
CreateParser ==
    /\ pc = "create_parser"
    /\ \E parser \in BOOLEAN :
        /\ pc' = IF parser THEN "parse" ELSE "fallback"
        /\ fault' = IF parser THEN "none" ELSE "no_parser"
    /\ UNCHANGED <<todo, all_chunks, file, strategy, opened, chunks, result>>
    /\ ChunkOnly

\* chunk_file, lines 70-73: the parser succeeds, reports failure, or throws.
ParseFile ==
    /\ pc = "parse"
    /\ \E parse \in {"success", "failure", "raised"} :
        /\ pc' = CASE parse = "success" -> "strategy"
                   [] parse = "failure" -> "fallback"
                   [] OTHER -> ExceptException("parse")
        /\ fault' = CASE parse = "success" -> "none"
                      [] parse = "failure" -> "parse_failed"
                      [] OTHER -> "raised"
    /\ UNCHANGED <<todo, all_chunks, file, strategy, opened, chunks, result>>
    /\ ChunkOnly

\* chunk_file, lines 75-88: the content is read and the strategy applied,
\* unless one of them throws.
ApplyStrategy ==
    /\ pc = "strategy"
    /\ \E raises \in BOOLEAN :
        IF raises
        THEN /\ pc' = ExceptException("strategy")
             /\ fault' = "raised"
             /\ UNCHANGED chunks
        ELSE /\ pc' = "post_process"
             /\ chunks' = ApplyStrategyTo(file, strategy)
             /\ UNCHANGED fault
    /\ UNCHANGED <<todo, all_chunks, file, strategy, opened, result>>
    /\ ChunkOnly

\* chunk_file, lines 90-94: post-processing, and the return of its chunks,
\* unless it throws.
PostProcess ==
    /\ pc = "post_process"
    /\ \E raises \in BOOLEAN :
        IF raises
        THEN /\ pc' = ExceptException("post_process")
             /\ fault' = "raised"
             /\ UNCHANGED result
        ELSE /\ pc' = "returned"
             /\ result' = PostProcessChunks(chunks, file)
             /\ UNCHANGED fault
    /\ UNCHANGED <<todo, all_chunks, file, strategy, opened, chunks>>
    /\ ChunkOnly

\* _fallback_chunking: the sliding window over the text read as utf-8, or
\* the empty list when that throws.
FallbackChunking ==
    /\ pc = "fallback"
    /\ \E readable \in BOOLEAN :
        /\ opened' = IF readable THEN "yes" ELSE "no"
        /\ result' = IF readable THEN SlidingWindowChunking(file) ELSE <<>>
    /\ pc' = "returned"
    /\ UNCHANGED <<todo, all_chunks, file, strategy, fault, chunks>>
    /\ ChunkOnly

\* chunk_repository, lines 121-122: the chunks of the file are collected
\* and the loop goes on.
Collect ==
    /\ pc = "returned"
    /\ all_chunks' = Append(all_chunks, file.path)
    /\ todo' = Tail(todo)
    /\ pc' = "idle"
    /\ file' = NoFile
    /\ fault' = "none"
    /\ opened' = NoneV
    /\ chunks' = <<>>
    /\ result' = <<>>
    /\ UNCHANGED strategy
    /\ ChunkOnly

NextChunk ==
    \/ BeginFile
    \/ CreateParser
    \/ ParseFile
    \/ ApplyStrategy
    \/ PostProcess
    \/ FallbackChunking
    \/ Collect

(***************************************************************************)
(*                 THE ANALYSIS API: analyze_code and its tasks            *)
(***************************************************************************)

\* Bound of the model: the requests analyze_code receives.
MaxTasks == 2

\* uuid4 gives every request a task id of its own.
TaskIds == 1..MaxTasks

\* run_analysis_task, line 24
ProgressSteps == <<10, 30, 50, 70, 90>>

\* tasks[task_id] as analyze_code writes it, lines 28-32.  A progress of 0
\* and a result or error of FALSE stand for an absent key.
PendingTask ==
    [status |-> "pending", progress |-> 0, result |-> FALSE, error |-> FALSE]

NoResponse == [of |-> "none", code |-> 0, task_id |-> 0, status |-> NoneV]

TasksIdle ==
    /\ tasks = <<>>
    /\ running = <<>>
    /\ response = NoResponse

TasksOnly == UNCHANGED <<ixVars, asVars, ckVars, emVars>>

\* analyze_code, lines 25-46 and 47-50: the task is registered; in async
\* mode run_analysis_task is queued as a background task and the response is
\* "pending", in sync mode the handler awaits run_analysis_sync.
AnalyzeCode(async_mode) ==
    LET task_id == Cardinality(DOMAIN tasks) + 1
    IN /\ task_id \in TaskIds
       /\ tasks' = tasks @@ (task_id :> PendingTask)
       /\ running' = running @@
            (task_id :> [async_mode |-> async_mode,
                         at |-> IF async_mode THEN "queued" ELSE "run_analysis_sync",
                         step |-> 0])
       /\ response' = IF async_mode
                      THEN [of |-> "analyze_code", code |-> 200,
                            task_id |-> task_id, status |-> "pending"]
                      ELSE response
       /\ TasksOnly

\* analyze_code, lines 51-58: run_analysis_sync returned or raised; the
\* handler answers and leaves the task table as it is.
SyncReturns(task_id, raises) ==
    /\ task_id \in DOMAIN running
    /\ running[task_id].at = "run_analysis_sync"
    /\ running' = [running EXCEPT ![task_id].at = "done"]
    /\ response' = IF raises
                   THEN [of |-> "analyze_code", code |-> 500,
                         task_id |-> task_id, status |-> NoneV]
                   ELSE [of |-> "analyze_code", code |-> 200,
                         task_id |-> task_id, status |-> "completed"]
    /\ UNCHANGED tasks
    /\ TasksOnly

\* run_analysis_task, lines 18-21: the background task starts.
StartTask(task_id) ==
    /\ task_id \in DOMAIN running
    /\ running[task_id].at = "queued"
    /\ running' = [running EXCEPT ![task_id].at = "processing"]
    /\ tasks' = [tasks EXCEPT ![task_id].status = "processing"]
    /\ UNCHANGED response
    /\ TasksOnly

\* run_analysis_task, lines 24-26: one round of the progress loop.
ReportProgress(task_id) ==
    /\ task_id \in DOMAIN running
    /\ running[task_id].at = "processing"
    /\ running[task_id].step < Len(ProgressSteps)
    /\ running' = [running EXCEPT ![task_id].step = @ + 1]
    /\ tasks' = [tasks EXCEPT
                    ![task_id].progress = ProgressSteps[running[task_id].step + 1]]
    /\ UNCHANGED response
    /\ TasksOnly

\* run_analysis_task, lines 29-55 and 57-61: the analysis ends, with its
\* result or with an exception.
FinishTask(task_id, raises) ==
    /\ task_id \in DOMAIN running
    /\ running[task_id].at = "processing"
    /\ running[task_id].step = Len(ProgressSteps)
    /\ running' = [running EXCEPT ![task_id].at = "done"]
    /\ tasks' = IF raises
                THEN [tasks EXCEPT ![task_id].status = "failed",
                                   ![task_id].error = TRUE]
                ELSE [tasks EXCEPT ![task_id].status = "completed",
                                   ![task_id].progress = 100,
                                   ![task_id].result = TRUE]
    /\ UNCHANGED response
    /\ TasksOnly

\* get_analysis_status
GetAnalysisStatus(task_id) ==
    /\ response' = IF task_id \notin DOMAIN tasks
                   THEN [of |-> "get_analysis_status", code |-> 404,
                         task_id |-> task_id, status |-> NoneV]
                   ELSE [of |-> "get_analysis_status", code |-> 200,
                         task_id |-> task_id, status |-> tasks[task_id].status]
    /\ UNCHANGED <<tasks, running>>
    /\ TasksOnly

\* What the event loop runs without a further request: the handler of a
\* sync request and the background tasks.
RunTasks ==
    \/ \E task_id \in TaskIds, raises \in BOOLEAN : SyncReturns(task_id, raises)
    \/ \E task_id \in TaskIds : StartTask(task_id)
    \/ \E task_id \in TaskIds : ReportProgress(task_id)
    \/ \E task_id \in TaskIds, raises \in BOOLEAN : FinishTask(task_id, raises)

NextTasks ==
    \/ \E async_mode \in BOOLEAN : AnalyzeCode(async_mode)
    \/ \E task_id \in TaskIds : GetAnalysisStatus(task_id)
    \/ RunTasks

\* The variables of the other components, while the index is exercised.
AsyncIdle ==
    /\ submitted = <<>>
    /\ task = <<>>
    /\ outcome = <<>>
    /\ cache = <<>>
    /\ model_calls = <<>>
    /\ returned = [done |-> FALSE, results |-> <<>>]

ChunkIdle ==
    /\ todo = <<>>
    /\ all_chunks = <<>>
    /\ file = NoFile
    /\ strategy = "hybrid"
    /\ pc = "idle"
    /\ fault = "none"
    /\ opened = NoneV
    /\ chunks = <<>>
    /\ result = <<>>

EmbedIdle ==
    /\ embedder = InitializeModel("sentence_transformer", FALSE)
    /\ self_cache = <<>>
    /\ embed_calls = <<>>
    /\ frame = NoFrame
    /\ value = NoValue

Init == InitIndex /\ AsyncIdle /\ ChunkIdle /\ EmbedIdle /\ TasksIdle
Next ==
    \/ AddEmbeddings
    \/ UpdateEmbeddings
    \/ DeleteByFile
    \/ ResetCollection
    \/ Search
    \/ SearchSimilarFunctions
Spec == Init /\ [][Next]_vars

IndexIdle ==
    /\ collection = {}
    /\ op = "idle"
    /\ ret = "True"
    /\ existed = {}
    /\ known = FALSE
    /\ NoSearch

\* embed_chunks_async alone.  Every thread the call starts is run and every
\* model call ends, by returning or by raising; the event loop runs every
\* task that can run.
StartAsync == InitAsync /\ IndexIdle /\ ChunkIdle /\ EmbedIdle /\ TasksIdle
SpecAsync == StartAsync /\ [][NextAsync]_vars
FairSpecAsync == SpecAsync /\ WF_vars(NextAsync)

\* chunk_repository alone.
StartChunk == InitChunk /\ IndexIdle /\ AsyncIdle /\ EmbedIdle /\ TasksIdle
SpecChunk == StartChunk /\ [][NextChunk]_vars

\* One collection fed by embedders of several models.
SpecModels == Init /\ [][NextModels]_vars

\* add_embeddings of chunks with metadata, on a store that is reset in
\* between.
SpecMetadata == Init /\ [][NextMetadata]_vars

\* One embedder, its embed_chunk and embed_chunks_batch calls one after the
\* other.
StartEmbed == InitEmbed /\ IndexIdle /\ AsyncIdle /\ ChunkIdle /\ TasksIdle
SpecEmbed == StartEmbed /\ [][NextEmbed]_vars

\* The analysis API alone.  The event loop runs every handler and every
\* background task to its end.
StartTasks == TasksIdle /\ IndexIdle /\ AsyncIdle /\ ChunkIdle /\ EmbedIdle
SpecTasks == StartTasks /\ [][NextTasks]_vars
FairSpecTasks == SpecTasks /\ WF_vars(RunTasks)

(***************************************************************************)
(*                     PROPERTIES OF THE VECTOR INDEX                      *)
(***************************************************************************)

\* C1: an add_embeddings call whose chunks all have the identity fields of
\* rows stored already leaves the number of rows unchanged, and no
\* add_embeddings call leaves two rows with the same identity fields or
\* removes the row of a stored identity: the collection holds one row for
\* the chunk, not two.
C1_AddSameIdentityKeepsCount ==
    [][op' = "add" =>
        /\ known' => Cardinality(collection') = Cardinality(collection)
        /\ \A r \in IndexResults :
            /\ Cardinality(RowsWithIdentityOf(collection', r.chunk)) <= 1
            /\ RowsWithIdentityOf(collection, r.chunk) # {}
                => Cardinality(RowsWithIdentityOf(collection', r.chunk)) = 1]_vars

\* C1 witness: an add_embeddings call that succeeded on a chunk that was
\* stored already, after which its id is stored once.
C1_Witness ==
    /\ op = "add"
    /\ ret = "True"
    /\ known
    /\ existed # {}
    /\ \A id \in existed : Cardinality({row \in collection : row.id = id}) = 1

\* C2: add_embeddings with results whose ids are stored already (the backend
\* being up and no id twice in the call) returns True and leaves under each
\* id the row of the result just added: its vector, metadata and document.
C2_AddOverwritesInPlace ==
    [][\A rs \in Batches :
            (/\ AddEmbeddingsCall(rs, FALSE)
             /\ ~HasDuplicateIds(RowsOf(rs))
             /\ IdsOf(rs) \cap Ids(collection) # {})
            => /\ ret' = "True"
               /\ \A i \in 1..Len(rs) : RowOf(rs[i]) \in collection']_vars

\* C5: a search whose query has a non-empty element_types and a language
\* sends the backend the element-kind predicate.
C5_ElementKindPrecedence ==
    (op = "search" /\ asked.element_types # <<>> /\ asked.language # NoneV)
        => sent.key = "element_type"

\* The results of the backend's answer that pass the threshold of the query.
Passing(rows, query) ==
    {i \in 1..Len(rows) :
        SimilarityScore(Distance(query.point, rows[i].embedding))
            >= query.similarity_threshold}

\* C10: the results search returns are the backend's rows that pass the
\* threshold, in the backend's order, and carry the ranks 1..k, k being
\* their number.
C10_RanksWithoutGaps ==
    (op = "search" /\ ret = "results")
        => /\ Len(hits) = Cardinality(Passing(answer, asked))
           /\ \A i \in 1..Len(hits) :
                /\ hits[i].rank = i
                /\ hits[i].id = answer[i].id
                /\ i \in Passing(answer, asked)

\* C10 witness: a search that returned two results after the threshold
\* discarded a further row of the backend's answer.
C10_Witness ==
    /\ op = "search"
    /\ ret = "results"
    /\ Len(hits) = 2
    /\ Len(answer) > Len(hits)

C12_DeleteByFileRemovesThatFile ==
    [][\A path \in Paths :
            DeleteByFileCall(path, FALSE) =>
                /\ ret' = "True"
                /\ collection' \subseteq collection
                /\ \A row \in collection :
                        row \in collection' <=> row.metadata.file_path # path]_vars

\* C12: a delete_by_file call removed the rows of one file and left the rows
\* of another.
C12_Witness ==
    /\ op = "delete"
    /\ ret = "True"
    /\ existed # {}
    /\ collection # {}
    /\ existed \cap Ids(collection) = {}

\* C13: no index operation reports a failure of the backend as a success
\* or as an empty result: then add_embeddings and delete_by_file return
\* False and search and search_similar_functions raise; while a search that
\* the backend serves and whose results all fall below the threshold returns
\* the empty list, and delete_by_file for a file without rows returns True.
C13_BackendFailuresAreReported ==
    [][/\ \A path \in Paths :
            /\ DeleteByFileCall(path, TRUE) => ret' = "False"
            /\ (DeleteByFileCall(path, FALSE) /\ RowsOfFile(collection, path) = {})
                    => ret' = "True"
       /\ op' = "similar" =>
            \A point \in {1, 3}, limit \in {1, 10} :
                \A rows \in BackendQuery(collection, point, limit, FunctionsOnly) :
                    SearchSimilarFunctionsCall(point, limit, rows, TRUE) => ret' = "raised"
       /\ op' = "search" =>
            /\ SearchCall(asked', answer', TRUE) => ret' = "raised"
            /\ (/\ SearchCall(asked', answer', FALSE)
                /\ \A i \in 1..Len(answer') :
                    /\ ValidChunkFields(answer'[i].metadata)
                    /\ SimilarityScore(Distance(asked'.point, answer'[i].embedding))
                            < asked'.similarity_threshold)
                    => ret' = "results" /\ hits' = <<>>
       /\ op' = "add" =>
            \A rs \in Batches \ {<<>>} :
                AddEmbeddingsCall(rs, TRUE) => ret' = "False"]_vars

\* C26: search succeeds whenever the backend query succeeds: the chunk of
\* every stored record, a record with element_type "" or language "unknown"
\* included, is rebuilt without failure.
C26_SearchRebuildsEveryStoredChunk ==
    [][(op' = "search" /\ SearchCall(asked', answer', FALSE))
            => ret' = "results"]_vars

\* C17: add_embeddings stores every string, number and boolean of a chunk's
\* metadata unchanged under its key (the empty string aside), every
\* non-empty list or mapping as its string form, and None and empty values
\* not at all or as a sentinel string; no stored value is a list or a
\* mapping.
C17_MetadataStoredAsScalars ==
    [][\A r \in ResultsWithMetadata :
            AddWithMetadataCall(r, FALSE) =>
                \A row \in collection' :
                    LET m == r.chunk.metadata
                        stored == row.metadata
                    IN \A key \in DOMAIN m :
                        /\ (m[key].type \in {"str", "int", "bool"}
                                    /\ m[key] # PyValue("str", "")) =>
                                /\ key \in DOMAIN stored
                                /\ stored[key] = m[key]
                        /\ (m[key].type \in {"list", "dict"} /\ Truthy(m[key])) =>
                                /\ key \in DOMAIN stored
                                /\ stored[key] = Str(m[key])
                        /\ (m[key] = PyNone \/ m[key].v \in {"", "[]", "{}"}) =>
                                \/ key \notin DOMAIN stored
                                \/ stored[key] \in Sentinels
                        /\ key \in DOMAIN stored =>
                                stored[key].type \notin {"list", "dict"}]_vars

\* C19: vectors of different models are never mixed in one collection:
\* whatever add_embeddings and update_embeddings calls were made, all rows
\* carry the same model_name and the same embedding_dimension, and the
\* vector of every row is as long as its embedding_dimension says.
C19_OneModelPerCollection ==
    /\ \A row, other \in collection :
            /\ row.metadata.model_name = other.metadata.model_name
            /\ row.metadata.embedding_dimension = other.metadata.embedding_dimension
    /\ \A row \in collection :
            Len(row.embedding) = row.metadata.embedding_dimension

(***************************************************************************)
(*                       PROPERTIES OF THE EMBEDDER                        *)
(***************************************************************************)

\* C3: while embed_chunks_async runs, at most 5 embed_chunk calls are in
\* flight at once; a further call starts only when fewer than 5 tasks are
\* between their start and their end, so only after one has finished; and
\* every submitted chunk is eventually attempted.
C3_AtMostFiveInFlight ==
    /\ [](Cardinality(InFlight) <= SemaphoreValue)
    /\ [][\A i \in 1..N :
            (task[i] = "queued" /\ task'[i] # "queued")
                => Cardinality(Holders) < SemaphoreValue]_vars
    /\ <>(\A i \in 1..N : task[i] # "queued")

\* C3: five calls are in flight and a sixth chunk waits for one to finish.
C3_Witness ==
    /\ Cardinality(InFlight) = SemaphoreValue
    /\ \E i \in 1..N : task[i] = "queued"

\* C4: embed_chunks_async returns a list in which every record is the record
\* of one submitted chunk, no chunk yields two records, a chunk whose
\* embedding failed has no record, and the chunks that did not fail have
\* theirs.
C4_OneRecordPerChunk ==
    returned.done =>
        /\ \A k \in 1..Len(returned.results) :
            returned.results[k].chunk \in Range(submitted)
        /\ \A k, l \in 1..Len(returned.results) :
            k # l => returned.results[k].chunk # returned.results[l].chunk
        /\ Len(returned.results) = Cardinality({i \in 1..N : outcome[i] # <<>>})
        /\ \A i \in 1..N : outcome[i] = <<>> =>
            \A k \in 1..Len(returned.results) : returned.results[k].chunk # submitted[i]

\* The embed_chunk calls of the chunks at i and j raced: they have the same
\* cache key, both missed and both model calls returned.
Raced(i, j) ==
    /\ i # j
    /\ GetCacheKey(submitted[i]) = GetCacheKey(submitted[j])
    /\ model_calls[i] > 0 /\ model_calls[j] > 0
    /\ outcome[i] # <<>> /\ outcome[j] # <<>>

\* C22: when concurrent embed_chunk calls miss on the same cache key, the
\* cache ends with one entry for the key, which is the record of one of
\* them, every caller has the record of the chunk it asked for, and the
\* vectors of their records are the same.
C22_SameKeyRaceIsBenign ==
    \A i, j \in 1..N :
        Raced(i, j) =>
            /\ GetCacheKey(submitted[i]) \in DOMAIN cache
            /\ cache[GetCacheKey(submitted[i])] \in {outcome[i][1], outcome[j][1]}
            /\ outcome[i][1].chunk = submitted[i]
            /\ outcome[j][1].chunk = submitted[j]
            /\ outcome[i][1].embedding = outcome[j][1].embedding

\* The waits before the retries of a chunk that was attempted n times.
WaitsOf(n) == [k \in 1..(n - 1) |-> RetryDelay * k]

\* The chunks whose log entry says that a result came out, in log order.
RECURSIVE KeptChunks(_, _, _)
KeptChunks(log, list, n) ==
    IF n > Len(log) THEN <<>>
    ELSE (IF log[n].ok THEN <<list[log[n].at]>> ELSE <<>>)
         \o KeptChunks(log, list, n + 1)

ChunksOf(results) == [k \in 1..Len(results) |-> results[k].chunk]

GoogleEntryInOrder(entry) ==
    /\ entry.attempts \in 1..MaxRetries
    /\ entry.waits = WaitsOf(entry.attempts)
    /\ ~entry.ok => entry.attempts = MaxRetries

\* The attempts the retry loop may still make.
AttemptsLeft(f) == (Len(f.chunks) - f.j + 1) * MaxRetries - f.retries

\* C14: on the hosted model's batch path, every chunk's model call is
\* attempted at most max_retries times, the wait before the k-th retry is
\* retry_delay * k and there is none after the last attempt; a chunk whose
\* attempts all fail is left out, the other chunks are still processed, and
\* the call neither raises nor loops for ever: it returns the results of
\* exactly the chunks that had a successful attempt, in list order.
C14_RetriesAreBoundedAndLinear ==
    /\ [](/\ frame.pc = "google" =>
                /\ frame.retries < MaxRetries
                /\ frame.waits = WaitsOf(frame.retries + 1)
          /\ \A n \in 1..Len(frame.log) :
                frame.log[n].via = "google" => GoogleEntryInOrder(frame.log[n])
          /\ (value.of = "embed_chunks_batch"
                    /\ embedder.config_model = "google_embedding") =>
                /\ ~value.raised
                /\ Len(value.log) = Len(value.args)
                /\ \A n \in 1..Len(value.log) :
                        /\ value.log[n].at = n
                        /\ value.log[n].via = "google"
                        /\ GoogleEntryInOrder(value.log[n])
                /\ ChunksOf(value.results) = KeptChunks(value.log, value.args, 1))
    /\ [][(frame.pc = "google" /\ frame'.pc = "google") =>
                /\ AttemptsLeft(frame') < AttemptsLeft(frame)
                /\ AttemptsLeft(frame') >= 0]_vars

\* A call returned in which one chunk failed every attempt and a later chunk
\* succeeded at its second.
C14_Witness ==
    /\ value.of = "embed_chunks_batch"
    /\ embedder.config_model = "google_embedding"
    /\ \E m, n \in 1..Len(value.log) :
            /\ m < n
            /\ ~value.log[m].ok
            /\ value.log[m].waits = <<RetryDelay, RetryDelay * 2>>
            /\ value.log[n].ok
            /\ value.log[n].attempts = 2
            /\ ChunksOf(value.results) = <<value.args[n]>>

\* C15: embed_chunk on a chunk whose cache key is cached returns the cached
\* record as it is and calls no model; on a miss it calls the model once
\* and, when the call returns, stores the new record under the key and
\* returns it.  So the model calls of embed_chunk that returned are one for
\* every key in the cache and none for any other key.
C15_OneModelCallPerKey ==
    /\ [][\A i \in 1..MaxCall, fails \in BOOLEAN :
            EmbedChunkCall(ChunkAt(i, TRUE), fails) =>
                LET key == CacheKey(embedder, ChunkAt(i, TRUE))
                IN IF key \in DOMAIN self_cache
                   THEN /\ ~value'.raised
                        /\ value'.results = <<self_cache[key]>>
                        /\ self_cache' = self_cache
                        /\ embed_calls' = embed_calls
                   ELSE /\ embed_calls'[key].calls = embed_calls[key].calls + 1
                        /\ \A k \in Keys(embedder) \ {key} :
                                embed_calls'[k] = embed_calls[k]
                        /\ ~value'.raised =>
                                /\ value'.results =
                                        <<EmbeddingResult(embedder, ChunkAt(i, TRUE))>>
                                /\ key \in DOMAIN self_cache'
                                /\ self_cache'[key] = value'.results[1]]_vars
    /\ [](\A k \in Keys(embedder) :
            embed_calls[k].calls - embed_calls[k].raised
                = IF k \in DOMAIN self_cache THEN 1 ELSE 0)

\* embed_chunk has served a chunk from the cache, after one model call for
\* its key.
C15_Witness ==
    /\ value.of = "embed_chunk"
    /\ ~value.raised
    /\ value.log[1].hit
    /\ embed_calls[CacheKey(embedder, value.args[1])] = [calls |-> 1, raised |-> 0]
    /\ DOMAIN self_cache = Keys(embedder)

\* C16: once the initialization of the configured model has failed, every
\* record that embed_chunk and embed_chunks_batch return, and every record
\* in the cache, holds a vector of the fallback model and carries the
\* fallback model's name and dimension.
C16_FallbackModelServes ==
    embedder.fell_back =>
        \A r \in Range(value.results) \cup Range(frame.results)
                    \cup {self_cache[k] : k \in DOMAIN self_cache} :
            /\ r.embedding.model = ModelName
            /\ r.model_name = ModelName
            /\ r.embedding_dimension = DimensionOf(ModelName)

KeysOf(e, list) == [k \in 1..Len(list) |-> CacheKey(e, list[k])]

\* A batch of the call failed after records of it had been built: a chunk
\* is in the log twice.
FailedPartWay(log) ==
    \E m, n \in 1..Len(log) : m < n /\ log[m].at = log[n].at

\* C20: when the call for a whole batch fails in embed_chunks_batch, each
\* chunk of the batch goes through embed_chunk, cache lookup included: a
\* cached key is served from the cache without a model call, any other
\* chunk costs one model call and is left out when that call raises.  The
\* call does not raise, the batches that follow are processed, and the
\* results are those of the chunks that did not fail, in list order.
C20_FailedBatchGoesThroughEmbedChunk ==
    /\ [][(/\ frame.pc \in {"inner_fallback", "outer_fallback"}
           /\ frame'.pc = frame.pc
           /\ frame' # frame) =>
            LET chunk == frame.chunks[frame.j]
                key == CacheKey(embedder, chunk)
                entry == frame'.log[Len(frame'.log)]
                got == SubSeq(frame'.results \o frame'.batch_results,
                              Len(frame.results \o frame.batch_results) + 1,
                              Len(frame'.results \o frame'.batch_results))
            IN /\ frame'.j = frame.j + 1
               /\ Len(frame'.log) = Len(frame.log) + 1
               /\ entry.at = frame.j
               /\ entry.via = "embed_chunk"
               /\ IF key \in DOMAIN self_cache
                  THEN /\ got = <<self_cache[key]>>
                       /\ embed_calls' = embed_calls
                       /\ self_cache' = self_cache
                  ELSE /\ embed_calls'[key].calls = embed_calls[key].calls + 1
                       /\ IF entry.ok
                          THEN /\ got = <<EmbeddingResult(embedder, chunk)>>
                               /\ key \in DOMAIN self_cache'
                               /\ self_cache'[key] = got[1]
                          ELSE /\ got = <<>>
                               /\ self_cache' = self_cache]_vars
    /\ []((value.of = "embed_chunks_batch" /\ ~FailedPartWay(value.log)) =>
            /\ ~value.raised
            /\ Len(value.log) = Len(value.args)
            /\ \A n \in 1..Len(value.log) : value.log[n].at = n
            /\ \A m, n \in 1..Len(value.log) :
                    (m - 1) \div BatchSize = (n - 1) \div BatchSize =>
                        (value.log[m].via = "embed_chunk"
                            <=> value.log[n].via = "embed_chunk")
            /\ KeysOf(embedder, ChunksOf(value.results))
                    = KeysOf(embedder, KeptChunks(value.log, value.args, 1)))

\* A call returned whose first batch failed as a whole: its first chunk
\* failed in embed_chunk too, its second did not, and the batch after it
\* was processed in one model call.
C20_Witness ==
    /\ value.of = "embed_chunks_batch"
    /\ Len(value.log) = MaxCall
    /\ value.log[1].via = "embed_chunk" /\ ~value.log[1].ok
    /\ value.log[2].via = "embed_chunk" /\ value.log[2].ok /\ ~value.log[2].hit
    /\ value.log[MaxCall].via = "batch"
    /\ ChunksOf(value.results) = SubSeq(value.args, 2, MaxCall)

\* C27: embed_chunks_batch returns at most one record per input chunk, in
\* input order, also when a batch fails part-way through: a record built
\* before the failure is not built again by the per-chunk fallback.
C27_OneRecordPerChunk ==
    value.of = "embed_chunks_batch" =>
        /\ Len(value.results) <= Len(value.args)
        /\ \A m, n \in 1..Len(value.log) :
                (m < n /\ value.log[m].ok /\ value.log[n].ok)
                    => value.log[m].at < value.log[n].at

\* C21: the cache is shared by the batch mode: every chunk for which
\* embed_chunks_batch returned a record has its key in the cache afterwards
\* (so embed_chunk and embed_chunks_async hit on it), and no model call is
\* made by embed_chunks_batch for a chunk whose key is cached.
C21_BatchSharesTheCache ==
    /\ [](value.of = "embed_chunks_batch" =>
            \A n \in 1..Len(value.log) :
                value.log[n].ok =>
                    CacheKey(embedder, value.args[value.log[n].at]) \in DOMAIN self_cache)
    /\ [][\A n \in (Len(frame.log) + 1)..Len(frame'.log) :
            CacheKey(embedder, frame.chunks[frame'.log[n].at]) \in DOMAIN self_cache
                => frame'.log[n].attempts = 0]_vars

\* C24: when the model call fails for a chunk, embed_chunk leaves the cache
\* as it was and raises an EmbeddingError that names the chunk (element name
\* and file path) and has the original error as its cause.
C24_EmbeddingErrorNamesTheChunk ==
    /\ [](value.of = "embed_chunk" /\ value.raised =>
            /\ value.error.type = "EmbeddingError"
            /\ value.error.element_name = value.args[1].element_name
            /\ value.error.file_path = value.args[1].file_path
            /\ value.error.cause = "model call failed")
    /\ [][\A i \in 1..MaxCall :
            (EmbedChunkCall(ChunkAt(i, TRUE), TRUE) /\ value'.raised)
                => self_cache' = self_cache]_vars

(***************************************************************************)
(*                       PROPERTIES OF THE CHUNKER                         *)
(***************************************************************************)

\* The text of the lines s..e of a file.
LinesOfFile(s, e) == [k \in 1..(e - s + 1) |-> s + k - 1]

\* C18: the content of every chunk chunk_file returns, under every strategy
\* and after post-processing, is the text of the lines start_line..end_line
\* of the file.
C18_ContentIsItsLines ==
    pc = "returned" =>
        \A i \in 1..Len(result) :
            result[i].content = LinesOfFile(result[i].start_line, result[i].end_line)

\* The chunk is the chunk of a function or of a class, or was merged from
\* such chunks only.
RepresentsFunctionOrClass(c) ==
    \/ c.element_type \in {"function", "class"}
    \/ /\ c.metadata.merged_chunk
       /\ c.metadata.element_types # {}
       /\ c.metadata.element_types \subseteq {"function", "class"}

\* C23: in every list chunk_file returns, from a strategy or from the
\* sliding-window fallback, a chunk whose content is shorter than
\* min_chunk_size represents a function or a class.
C23_NoSmallChunkReturned ==
    pc = "returned" =>
        \A i \in 1..Len(result) :
            \/ CharLen(result[i].content, file) >= MinChunkSize
            \/ RepresentsFunctionOrClass(result[i])

\* The chunks that post-processing hands to the merging step.
KeptChunksOf(cs, f) == FlatMap(LAMBDA chunk : DropAndTrim(chunk, f), cs, 1)

IsSmall(c, f) == CharLen(c.content, f) < MinChunkSize * 2

\* The maximal run of small chunks that starts at position i.
RECURSIVE RunFrom(_, _, _)
RunFrom(cs, f, i) ==
    IF i > Len(cs) \/ ~IsSmall(cs[i], f) THEN <<>>
    ELSE <<cs[i]>> \o RunFrom(cs, f, i + 1)

RECURSIVE JoinedByBlankLines(_, _)
JoinedByBlankLines(run, i) ==
    IF i = Len(run) THEN run[i].content
    ELSE run[i].content \o <<0>> \o JoinedByBlankLines(run, i + 1)

\* What merging is to yield for the chunks from position i on: for every
\* output chunk the members it stands for.
RECURSIVE MergeGroups(_, _, _)
MergeGroups(cs, f, i) ==
    IF i > Len(cs) THEN <<>>
    ELSE IF ~IsSmall(cs[i], f) THEN <<<<cs[i]>>>> \o MergeGroups(cs, f, i + 1)
    ELSE <<RunFrom(cs, f, i)>> \o MergeGroups(cs, f, i + Len(RunFrom(cs, f, i)))

\* C25: merging keeps order and boundaries: a chunk of at least twice
\* min_chunk_size and a lone small chunk are output unchanged, large chunks
\* separate the groups, and every maximal run of two or more small chunks
\* becomes one chunk whose content is the members' contents joined by a
\* blank line and whose metadata has every key of every member.
C25_MergeKeepsOrderAndMetadata ==
    (pc = "returned" /\ fault = "none") =>
        LET groups == MergeGroups(KeptChunksOf(chunks, file), file, 1)
        IN /\ Len(result) = Len(groups)
           /\ \A k \in 1..Len(groups) :
                IF Len(groups[k]) = 1
                THEN result[k] = groups[k][1]
                ELSE /\ result[k].content = JoinedByBlankLines(groups[k], 1)
                     /\ \A c \in Range(groups[k]) :
                            c.metadata.keys \subseteq result[k].metadata.keys

\* C28: two different chunks that one chunk_file call returns never get the
\* same index id from _generate_chunk_id (a function's or class's code chunk
\* and its docstring chunk included), so one add_embeddings call with all
\* the chunks of the file stores every one of them.
C28_ChunksOfAFileHaveDistinctIds ==
    pc = "returned" =>
        /\ \A i, j \in 1..Len(result) :
                result[i] # result[j]
                    => GenerateChunkId(result[i]) # GenerateChunkId(result[j])
        /\ \A i, j \in 1..Len(result) :
                i # j => GenerateChunkId(result[i]) # GenerateChunkId(result[j])

\* The places (group, position) of an element in the groups.
PlacesOf(element, groups) ==
    {gm \in (1..Len(groups)) \X (1..MaxOfNat({Len(groups[g]) : g \in 1..Len(groups)})) :
        gm[2] <= Len(groups[gm[1]]) /\ groups[gm[1]][gm[2]] = element}

\* The chunks whose line range covers the element.
CoveringChunks(element, cs) ==
    {n \in 1..Len(cs) :
        cs[n].start_line <= element.start_line /\ element.end_line <= cs[n].end_line}

\* C29: in semantic-blocks chunking every function element and every class
\* element of the parsed file belongs to exactly one group, and so is
\* covered by the line range of exactly one emitted group chunk, also when
\* two elements of the file have the same name.
C29_EveryElementInOneGroup ==
    (pc = "post_process" /\ strategy = "semantic_blocks") =>
        LET groups == GroupSemanticElements(file.elements, 1, {})
        IN \A element \in Range(file.elements) :
                element.element_type \in {"function", "class"} =>
                    /\ Cardinality(PlacesOf(element, groups)) = 1
                    /\ Cardinality(CoveringChunks(element, chunks)) = 1

\* C6: every chunk chunk_file returns, under every strategy, from the
\* fallback and after post-processing, has
\* 1 <= start_line <= end_line <= the number of lines of the file.
C6_LinesWithinFile ==
    pc = "returned" =>
        \A i \in 1..Len(result) :
            /\ 1 <= result[i].start_line
            /\ result[i].start_line <= result[i].end_line
            /\ result[i].end_line <= file.nlines

ThreeSmallChunks ==
    /\ pc = "returned"
    /\ fault = "none"
    /\ Len(chunks) = 3
    /\ \A i \in 1..3 : CharLen(chunks[i].content, file) < MinChunkSize

MergedIntoOne ==
    /\ Len(result) = 1
    /\ result[1].start_line = MinOf({chunks[i].start_line : i \in 1..3})
    /\ result[1].end_line = MaxOf({chunks[i].end_line : i \in 1..3})
    /\ result[1].metadata.merged_chunk
    /\ result[1].metadata.original_chunks = 3

\* C7: post-processing three chunks that are each shorter than
\* min_chunk_size yields exactly one chunk, from the least start line to the
\* greatest end line of the three, with merged_chunk true and
\* original_chunks 3.
C7_ThreeSmallChunksMerge == ThreeSmallChunks => MergedIntoOne

\* C7, for chunks of functions and classes: post-processing three chunks
\* that are each shorter than min_chunk_size and each the chunk of a function
\* or of a class yields exactly one chunk, from the least start line to the
\* greatest end line of the three, with merged_chunk true and
\* original_chunks 3.
C7_ThreeSmallFunctionChunksMerge ==
    (/\ ThreeSmallChunks
     /\ \A i \in 1..3 : chunks[i].element_type \in {"class", "function"})
        => MergedIntoOne

\* C7: three small function chunks were merged into one.
C7_Witness ==
    /\ ThreeSmallChunks
    /\ \A i \in 1..3 : chunks[i].element_type = "function"
    /\ Len(result) = 1
    /\ result[1].metadata.original_chunks = 3

HybridDone == pc = "returned" /\ fault = "none" /\ strategy = "hybrid"

\* The chunk of element e in the list cs.
HasChunkOf(cs, e) ==
    \E i \in 1..Len(cs) :
        /\ cs[i].chunk_type = "code"
        /\ cs[i].element_type = e.element_type
        /\ cs[i].element_name = e.name
        /\ cs[i].start_line = e.start_line

ImportChunksOf(cs) == {i \in 1..Len(cs) : cs[i].element_type = "import"}

\* What the hybrid strategy promises of the list cs.
HybridChunksIn(cs) ==
    /\ \A e \in Range(ElementsOfType(file, {"function"})) : HasChunkOf(cs, e)
    /\ \A e \in Range(ElementsOfType(file, {"class"})) :
            HasChunkOf(cs, e) <=> e.complexity_score > ComplexityThreshold
    /\ Cardinality(ImportChunksOf(cs)) =
            (IF ElementsOfType(file, {"import"}) # <<>> THEN 1 ELSE 0)

\* C8: chunk_file with the hybrid strategy returns, for a parsed file, a
\* function chunk for every function element, a class chunk for exactly the
\* classes of complexity above 10, and one import chunk when the file has an
\* import element.
C8_HybridChunksReturned == HybridDone => HybridChunksIn(result)

\* The chunk of element e in the list cs, or a merged chunk of cs that
\* names it.
HasChunkOrMergeOf(cs, e) ==
    \/ HasChunkOf(cs, e)
    \/ \E i \in 1..Len(cs) :
        /\ cs[i].metadata.merged_chunk
        /\ e.name \in Range(cs[i].metadata.element_names)
        /\ cs[i].start_line <= e.start_line

\* C8, before and after post-processing: the hybrid strategy hands to
\* post-processing a function chunk for every function element, a class
\* chunk for exactly the classes of complexity above 10, and one import
\* chunk when the file has an import element; in what chunk_file returns,
\* each of these function and class chunks is present or is part of a merged
\* chunk that names the element, and there is no import chunk when the
\* import lines are shorter than min_chunk_size.
C8_HybridChunksBeforePostProcessing ==
    HybridDone =>
        /\ HybridChunksIn(chunks)
        /\ \A e \in Range(ElementsOfType(file, {"function"})) : HasChunkOrMergeOf(result, e)
        /\ \A e \in Range(ElementsOfType(file, {"class"})) :
                e.complexity_score > ComplexityThreshold => HasChunkOrMergeOf(result, e)
        /\ \A e \in Range(ElementsOfType(file, {"class"})) :
                e.complexity_score <= ComplexityThreshold => ~HasChunkOf(result, e)
        /\ CharLen(AsText(ImportLines(file)), file) < MinChunkSize
                => ImportChunksOf(result) = {}

\* C8: the file with function add on lines 1-3 and class Calculator of
\* complexity 15 on lines 5-12 was chunked, and add is only part of a merged
\* chunk.
C8_Witness ==
    /\ HybridDone
    /\ \E e \in Range(file.elements) :
        /\ e.name = "add" /\ e.start_line = 1 /\ e.end_line = 3
        /\ ~HasChunkOf(result, e)
        /\ HasChunkOrMergeOf(result, e)
    /\ \E e \in Range(file.elements) :
        /\ e.name = "Calculator" /\ e.start_line = 5 /\ e.end_line = 12
        /\ e.complexity_score = 15

\* C9: chunk_file never raises: whatever fails in it, it returns the
\* sliding-window chunks of the text of the file, or the empty list when the
\* file cannot be read; so chunk_repository is always at a step of its loop
\* or of chunk_file, never stopped by an exception, and the files whose
\* chunks it has collected are at every moment the supported files before
\* the one it is at: at its end, all of them.
C9_ChunkFileNeverRaises ==
    /\ pc \in {"idle", "create_parser", "parse", "strategy", "post_process",
              "fallback", "returned"}
    /\ pc = "returned" =>
            result = IF fault = "none" THEN PostProcessChunks(chunks, file)
                     ELSE IF opened = "yes" THEN SlidingWindowChunking(file)
                     ELSE <<>>
    /\ all_chunks \o todo = Repo
    /\ pc # "idle" => todo # <<>> /\ file.path = Head(todo)

\* C9: after the chunks of one file were collected, chunk_file fails on the
\* next file, which cannot be read either, and returns the empty list.
C9_Witness ==
    /\ pc = "returned"
    /\ fault = "raised"
    /\ opened = "no"
    /\ result = <<>>
    /\ all_chunks # <<>>

(***************************************************************************)
(*                     PROPERTIES OF THE ANALYSIS API                      *)
(***************************************************************************)

Finished == {"completed", "failed"}
StatusRank(status) ==
    CASE status = "pending" -> 0
      [] status = "processing" -> 1
      [] OTHER -> 2

\* C30: every task analyze_code registers eventually has status completed
\* or failed, in async mode and in sync mode alike; its status only moves
\* forward and never changes once it is completed or failed; and
\* get_analysis_status never reports pending for a task whose analysis has
\* already finished.
C30_EveryTaskFinishes ==
    /\ \A task_id \in TaskIds :
            (task_id \in DOMAIN tasks) ~> (/\ task_id \in DOMAIN tasks
                                           /\ tasks[task_id].status \in Finished)
    /\ [][\A task_id \in DOMAIN tasks :
            /\ task_id \in DOMAIN tasks'
            /\ StatusRank(tasks'[task_id].status) >= StatusRank(tasks[task_id].status)
            /\ tasks[task_id].status \in Finished
                    => tasks'[task_id].status = tasks[task_id].status]_vars
    /\ [][\A task_id \in DOMAIN running :
            (GetAnalysisStatus(task_id) /\ running[task_id].at = "done")
                => response'.status # "pending"]_vars

====
